---- MODULE Spec2Model ----
(***************************************************************************)
(* Model of the session core of openera-backend: AuthService (login,       *)
(* refreshToken, logout, changePassword), AuthController.revokeAllSessions *)
(* and AuditService.createAuditLog, over the Prisma store (admins,         *)
(* refresh_tokens, audit_logs).  Every request is one call; each `await`   *)
(* on the store is one atomic step, so calls interleave between awaits.    *)
(* Around it: the configuration read at startup, JWTUtils, the rate        *)
(* limiters of middleware/rateLimit.ts and the keep-alive job.             *)
(***************************************************************************)
EXTENDS Integers, Sequences, FiniteSets, TLC

\* ------------------------------------------------------------ bounds
NumCalls == 3            \* calls (requests) made over one run
MaxAttempts == 12        \* login attempts one client sends within one window
MaxInFlight == 2         \* requests of one key inside one limiter at the same time
Overshoot == 2           \* requests arriving after a limiter's max was reached
MaxNow == 20             \* minutes the clock runs while JWTUtils is exercised alone
MaxMinted == 2           \* tokens generated while JWTUtils is exercised alone
MaxDays == 31            \* days the clock runs while the keep-alive job is exercised
NumRequests == 3         \* HTTP requests sent to the application, one after another

Calls == 1..NumCalls

\* ------------------------------------------------------------ constants
RefreshTtlDays == 7      \* expiresAt: Date.now() + 7 days
MinutesPerDay == 1440    \* the clock counts minutes
AccessTtlMinutes == 15   \* JWT_EXPIRES_IN, '15m' unless set otherwise
RetentionDays == 30      \* cleanupOldAuditLogs keeps the events of the last 30 days

None == "none"
NeverLoggedIn == -1      \* lastLoginAt of an account that never logged in (null)

AdminIds == {"a1", "a2"}
UnknownEmail == "nobody@x"
EmailOf(a) == IF a = "a1" THEN "a1@x" ELSE "a2@x"
Emails == {EmailOf(a) : a \in AdminIds} \cup {UnknownEmail}

\* Passwords are sequences of characters, over the characters the passwords below use.
Upper == {"A", "P"}
Lower == {"a", "b", "c", "d", "i", "m", "n", "o", "p", "r", "s", "w"}
Digit == {"1", "2", "3", "4", "5", "6"}
Special == {"!"}
PwOld == <<"A", "b", "1", "!", "b", "b", "b", "b">>
PwNew == <<"A", "c", "1", "!", "c", "c", "c", "c">>
PwWeak == <<"b", "c", "b", "c">>
\* Eight characters, no digit and no symbol; in lower case it is a common password.
PwCommon == <<"P", "a", "s", "s", "w", "o", "r", "d">>
\* A strong password of 129 characters.
PwLong == PwNew \o [i \in 1..121 |-> "c"]
Passwords == {PwOld, PwNew, PwWeak}
\* What a client types: the right secret or another one; a strong or a weak new one.
TypedPasswords == {PwOld, PwNew}
NewPasswords == {PwNew, PwWeak}

\* bcrypt: the hash determines the password it was made from.
HashPassword(pw) == <<"bcrypt", pw>>
ComparePassword(pw, hash) == hash = HashPassword(pw)

HasChar(pw, class) == \E i \in 1..Len(pw) : pw[i] \in class

\* password.toLowerCase()
ToLowerCase(pw) ==
    [i \in 1..Len(pw) |-> CASE pw[i] = "A" -> "a" [] pw[i] = "P" -> "p" [] OTHER -> pw[i]]

\* commonPasswords: three of its ten entries; all ten consist of lower-case letters and
\* digits only.
CommonPasswords == {<<"p", "a", "s", "s", "w", "o", "r", "d">>,
                    <<"1", "2", "3", "4", "5", "6">>,
                    <<"a", "d", "m", "i", "n">>}

ValidatePasswordStrength(pw) ==
    /\ Len(pw) >= 8
    /\ Len(pw) <= 128
    /\ HasChar(pw, Upper)
    /\ HasChar(pw, Lower)
    /\ HasChar(pw, Digit)
    /\ HasChar(pw, Special)
    /\ ToLowerCase(pw) \notin CommonPasswords

\* Mutation: the change-password validator without its confirmPassword rule.
AdminChangePasswordValidationNoConfirm(form) ==
    {f \in {"currentPassword"} : Len(form.currentPassword) < 1}
        \cup {f \in {"newPassword"} :
                 \/ Len(form.newPassword) < 8
                 \/ ~(/\ HasChar(form.newPassword, Lower) /\ HasChar(form.newPassword, Upper)
                      /\ HasChar(form.newPassword, Digit) /\ HasChar(form.newPassword, Special))}

\* adminChangePasswordValidation: the fields of the body it reports.  currentPassword
\* must not be empty; newPassword must have eight characters and match the four
\* lookaheads; confirmPassword must equal newPassword.
AdminChangePasswordValidation(form) ==
    {f \in {"currentPassword"} : Len(form.currentPassword) < 1}
        \cup {f \in {"newPassword"} :
                 \/ Len(form.newPassword) < 8
                 \/ ~(/\ HasChar(form.newPassword, Lower) /\ HasChar(form.newPassword, Upper)
                      /\ HasChar(form.newPassword, Digit) /\ HasChar(form.newPassword, Special))}
        \cup {f \in {"confirmPassword"} : form.confirmPassword # form.newPassword}

\* The body of a change-password request.
NoForm == [currentPassword |-> <<>>, newPassword |-> <<>>, confirmPassword |-> <<>>]
Forms == [currentPassword : {<<>>, PwOld, PwNew}, newPassword : {PwNew, PwWeak, PwCommon, PwLong},
          confirmPassword : {PwOld, PwNew, PwWeak, PwCommon, PwLong}]

VARIABLES
    admins,         \* admins table: id -> [password, isActive, lastLoginAt]
    refreshTokens,  \* refresh_tokens table: set of records
    auditLogs,      \* audit_logs table: sequence of events
    nextId,         \* source of fresh record ids (cuid)
    now,            \* the clock, in minutes
    pc,             \* each call's position
    req,            \* each call's arguments
    loc,            \* each call's local variables
    res,            \* each call's response
    prior,          \* history: the calls that had returned when this call began
    pwEpoch,        \* history: password changes committed per admin
    config,         \* config.jwt, read from the environment at startup
    minted,         \* JWTUtils alone: the tokens generated so far
    verdict,        \* JWTUtils alone: the outcome of the latest verification
    hits,           \* each limiter's MemoryStore: client key -> hits in the window
    flight,         \* requests between a limiter's increment and its decision
    admitted,       \* history: requests each limiter let through in the window
    served,         \* history: the answers each client got to its login attempts
    http,           \* each HTTP request's way through the middleware chain
    submissions     \* submissions table: set of records

\* ------------------------------------------------------------ configuration
\* process.env: the variables the startup check requires; "" stands for unset.
SecretValues == {"k1", "k2"}
Envs == [DATABASE_URL : {"", "postgresql://db"},
         JWT_SECRET : SecretValues \cup {""},
         JWT_REFRESH_SECRET : SecretValues \cup {""},
         JWT_EXPIRES_IN : {AccessTtlMinutes}]

\* The loop over requiredEnvVars: startup throws unless each of them is set.
Accepted(env) ==
    /\ env.DATABASE_URL # ""
    /\ env.JWT_SECRET # ""
    /\ env.JWT_REFRESH_SECRET # ""

LoadConfig(env) ==
    [secret |-> IF env.JWT_SECRET = "" THEN "fallback-secret" ELSE env.JWT_SECRET,
     refreshSecret |-> IF env.JWT_REFRESH_SECRET = "" THEN "fallback-refresh-secret"
                       ELSE env.JWT_REFRESH_SECRET,
     expiresIn |-> env.JWT_EXPIRES_IN,
     refreshExpiresIn |-> RefreshTtlDays * MinutesPerDay]

\* The deployment the session core is checked under: two different secrets.
DeployedEnv == [DATABASE_URL |-> "postgresql://db", JWT_SECRET |-> "k1",
                JWT_REFRESH_SECRET |-> "k2", JWT_EXPIRES_IN |-> AccessTtlMinutes]

\* ------------------------------------------------------------ tokens
RefreshSecret == config.refreshSecret

\* jwt.sign({adminId, tokenId}, refreshSecret, {expiresIn: '7d'})
GenerateRefreshToken(adminId, tokenId, t) ==
    [adminId |-> adminId, tokenId |-> tokenId, key |-> RefreshSecret,
     exp |-> t + config.refreshExpiresIn]

\* The placeholder value '' a record is created with.
EmptyToken == [adminId |-> None, tokenId |-> 0, key |-> None, exp |-> 0]

\* A token that was not signed with the refresh secret.
ForgedToken == [adminId |-> "a1", tokenId |-> 1, key |-> "forged",
                exp |-> RefreshTtlDays * MinutesPerDay]

\* jwt.verify(token, refreshSecret): the signature and the expiry.
VerifyRefreshToken(tok, t) == tok.key = RefreshSecret /\ t < tok.exp

AccessSecret == config.secret

\* The claims login and refreshToken sign: the account's id, email and role.
RoleOf(a) == IF a = "a1" THEN "admin" ELSE "superadmin"
ClaimsOf(a) == [adminId |-> a, email |-> EmailOf(a), role |-> RoleOf(a)]

\* Mutation: the role is not copied from the claims.
GenerateAccessTokenFlat(claims, t) ==
    [adminId |-> claims.adminId, email |-> claims.email, role |-> "admin",
     iat |-> t, exp |-> t + config.expiresIn, key |-> AccessSecret]

\* jwt.sign({adminId, email, role}, secret, {expiresIn})
GenerateAccessToken(claims, t) ==
    [adminId |-> claims.adminId, email |-> claims.email, role |-> claims.role,
     iat |-> t, exp |-> t + config.expiresIn, key |-> AccessSecret]

\* No access token: what a response without one carries.
NoAccessToken == [adminId |-> None, email |-> None, role |-> None,
                  iat |-> 0, exp |-> 0, key |-> None]

\* jwt.verify(token, secret): the signature and the expiry, nothing else.
VerifyAccessToken(tok, t) == tok.key = AccessSecret /\ t < tok.exp

\* What jwt.verify returns: the payload, which is the token without its signature.
Decoded(tok) == [f \in DOMAIN tok \ {"key"} |-> tok[f]]

session == <<admins, refreshTokens, auditLogs, nextId, pc, req, loc, res, prior, pwEpoch>>
jwts == <<minted, verdict>>
limits == <<hits, flight, admitted, served>>
\* What the session core never writes.
edge == <<config, minted, verdict, hits, flight, admitted, served, http, submissions>>
\* What only the request pipeline and the submission service write.
outer == <<http, submissions>>

vars == <<admins, refreshTokens, auditLogs, nextId, now, pc, req, loc, res, prior, pwEpoch,
          config, minted, verdict, hits, flight, admitted, served, http, submissions>>

store == <<admins, refreshTokens, auditLogs, nextId>>

NoReq == [op |-> None, adminId |-> None, email |-> None, password |-> <<>>,
          newPassword |-> <<>>, token |-> EmptyToken]
NoRec == [id |-> 0, token |-> EmptyToken, adminId |-> None, expiresAt |-> 0, gen |-> 0]
\* epoch and auditFailed are history: the admin's pwEpoch once this call's bulk delete
\* ran, and whether this call's audit append was refused by the store.
\* cause is history too: what logger.warn recorded when login refused the credentials.
NoLoc == [rec |-> NoRec, newId |-> 0, newToken |-> EmptyToken, count |-> 0,
          epoch |-> 0, auditFailed |-> FALSE, accessToken |-> NoAccessToken,
          cause |-> None]
NoRes == [success |-> FALSE, error |-> None, token |-> EmptyToken, count |-> 0,
          accessToken |-> NoAccessToken]

\* ------------------------------------------------------------ rate limiters
\* The limiters middleware/rateLimit.ts builds, each with a MemoryStore of its own.
Limiters == {"general", "submission", "auth", "admin"}
GeneralMax == 100        \* RATE_LIMIT_MAX_REQUESTS
SubmissionMax == 5       \* SUBMISSION_RATE_LIMIT_MAX
AuthMax == 10            \* authRateLimit
AdminMax == 200          \* adminRateLimit
Max(l) ==
    CASE l = "general" -> GeneralMax
      [] l = "submission" -> SubmissionMax
      [] l = "auth" -> AuthMax
      [] OTHER -> AdminMax

\* keyGenerator: the client's address.
Clients == {"ip1", "ip2"}

WindowMinutes(l) == IF l = "submission" THEN 60 ELSE 15

\* The Retry-After header of a refusal: windowMs / 1000, rounded up.
RetryAfterSeconds(l) == WindowMinutes(l) * 60

\* Mutation: a request compares the count it read before its own hit was added.
TotalHitsStale(h) == h

\* MemoryStore.increment: the count a request gets back includes the request itself.
TotalHits(h) == h + 1

\* The limiter refuses a request when its totalHits is above max.
Exceeds(totalHits, l) == totalHits > Max(l)

\* A generated token with what it was generated from, and a verification's outcome.
NoMint == [class |-> None, claims |-> ClaimsOf("a1"), at |-> 0, token |-> EmptyToken]
NoVerdict == [of |-> NoMint, by |-> None, at |-> 0, ok |-> FALSE,
              payload |-> Decoded(EmptyToken)]

\* The HTTP request being served, on its way through app.use(...) and its route's
\* handlers: its number (n), the middleware to run next (at), what earlier middleware
\* attached to req (requestId, admin), the middleware that ran, the service call its
\* controller makes, and the response once one was sent.
Undefined == "undefined"
NoReply == [status |-> 0, requestId |-> Undefined, timestamp |-> -1]
NoHttp == [n |-> 0, route |-> None, key |-> None, body |-> None, form |-> NoForm,
           token |-> NoAccessToken, at |-> 0, requestId |-> Undefined, admin |-> None,
           ran |-> {}, call |-> 0, reply |-> NoReply]

\* The state after startup when the limiters' stores hold the counts h.
FreshWith(h) ==
    /\ admins = [a \in AdminIds |->
                   [password |-> HashPassword(PwOld), isActive |-> TRUE,
                    lastLoginAt |-> NeverLoggedIn]]
    /\ refreshTokens = {}
    /\ auditLogs = <<>>
    /\ nextId = 1
    /\ now = 0
    /\ pc = [p \in Calls |-> "idle"]
    /\ req = [p \in Calls |-> NoReq]
    /\ loc = [p \in Calls |-> NoLoc]
    /\ res = [p \in Calls |-> NoRes]
    /\ prior = [p \in Calls |-> {}]
    /\ pwEpoch = [a \in AdminIds |-> 0]
    /\ minted = {}
    /\ verdict = NoVerdict
    /\ hits = h
    /\ flight = {}
    /\ admitted = h
    /\ served = [k \in Clients |-> <<>>]
    /\ http = NoHttp
    /\ submissions = {}

Fresh == FreshWith([l \in Limiters |-> [k \in Clients |-> 0]])

Init == config = LoadConfig(DeployedEnv) /\ Fresh

\* ------------------------------------------------------------ store primitives
AdminByEmail(email) ==
    IF \E a \in AdminIds : EmailOf(a) = email
    THEN CHOOSE a \in AdminIds : EmailOf(a) = email
    ELSE None

\* refresh_tokens.token is @unique: a second row with the same value is refused.
UniqueViolation(tokens, tok) == \E r \in tokens : r.token = tok

\* prisma.refreshToken.create({data: {token: '', adminId, expiresAt: now + 7 days}})
CreatePlaceholder(tokens, id, adminId, t, g) ==
    tokens \cup {[id |-> id, token |-> EmptyToken, adminId |-> adminId,
                  expiresAt |-> t + RefreshTtlDays * MinutesPerDay, gen |-> g]}

\* Mutation: a delete or update of a missing row is not reported.
ExistsAlways(tokens, id) == TRUE

\* delete and update throw (P2025) unless a row with the id exists.
Exists(tokens, id) == \E r \in tokens : r.id = id

\* prisma.refreshToken.update({where: {id}, data: {token}})
UpdateToken(tokens, id, tok) ==
    {IF r.id = id THEN [r EXCEPT !.token = tok] ELSE r : r \in tokens}

\* Mutation: the consumed row is left in the table.
DeleteByIdKeeps(tokens, id) == tokens

\* prisma.refreshToken.delete({where: {id}})
DeleteById(tokens, id) == {r \in tokens : r.id # id}

\* Mutation: the where clause is lost and every admin's rows go.
DeleteManyOfAll(tokens, adminId) == {}

\* Mutation: the bulk delete removes nothing.
DeleteManyOfNone(tokens, adminId) == tokens

\* prisma.refreshToken.deleteMany({where: {adminId}})
DeleteManyByAdmin(tokens, adminId) == {r \in tokens : r.adminId # adminId}

\* The count deleteMany returns.
DeleteManyCount(tokens, adminId) == Cardinality({r \in tokens : r.adminId = adminId})

\* prisma.refreshToken.findUnique({where: {id: decoded.tokenId, token}})
FindUnique(tokens, id, tok) == {r \in tokens : r.id = id /\ r.token = tok}

\* Mutation: findFirst that looks for the token alone.
FindFirstAnyOwner(tokens, tok, adminId) == {r \in tokens : r.token = tok}

\* prisma.refreshToken.findFirst({where: {token, adminId}})
FindFirst(tokens, tok, adminId) == {r \in tokens : r.token = tok /\ r.adminId = adminId}

\* AuditService.createAuditLog: prisma.auditLog.create appends one event; when the
\* store refuses it (ok = FALSE) the error is caught and logged, nothing is appended
\* and {success: false} is returned, which no caller reads.
CreateAuditLog(logs, ev, ok) == IF ok THEN Append(logs, ev) ELSE logs

\* Mutation: the login event is written without its actor.
LoginEventNoActor(p, adminId) ==
    [action |-> "LOGIN", entityType |-> "admin", entityId |-> adminId,
     adminId |-> None, description |-> "logged in", createdAt |-> now, by |-> p]

\* createdAt is the clock at the insert.  The field `by` is history: the call that wrote
\* the event.
LoginEvent(p, adminId) ==
    [action |-> "LOGIN", entityType |-> "admin", entityId |-> adminId,
     adminId |-> adminId, description |-> "logged in", createdAt |-> now, by |-> p]

LogoutEvent(p, adminId) ==
    [action |-> "LOGOUT", entityType |-> "admin", entityId |-> adminId,
     adminId |-> adminId, description |-> "logged out", createdAt |-> now, by |-> p]

PasswordChangedEvent(p, adminId) ==
    [action |-> "UPDATE", entityType |-> "admin", entityId |-> adminId,
     adminId |-> adminId, description |-> "Password changed", createdAt |-> now, by |-> p]

SessionsRevokedEvent(p, adminId) ==
    [action |-> "LOGOUT", entityType |-> "admin", entityId |-> adminId,
     adminId |-> adminId, description |-> "All sessions revoked", createdAt |-> now, by |-> p]

\* ------------------------------------------------------------ calls
InFlight(p) == pc[p] \notin {"idle", "done"}
Returned == {q \in Calls : pc[q] = "done"}
Quiet == \A q \in Calls : ~InFlight(q)
Succeeded(q) == pc[q] = "done" /\ res[q].success

\* Calls are numbered in the order they begin.
CanBegin(p) == pc[p] = "idle" /\ (IF p = 1 THEN TRUE ELSE pc[p - 1] # "idle")

\* Refresh tokens a client can present: those a response handed out, or a forgery.
HandedTokens == {res[q].token : q \in {c \in Calls : Succeeded(c) /\ req[c].op \in {"login", "refresh"}}}
PresentableTokens == HandedTokens \cup {ForgedToken}

\* Admins holding an access token: authenticateToken lets only them through.
OwnerOf(q) == IF req[q].op = "refresh" THEN loc[q].rec.adminId ELSE req[q].adminId
AuthedAdmins == {OwnerOf(q) : q \in {c \in Calls : Succeeded(c) /\ req[c].op \in {"login", "refresh"}}}

Begin(p, r) ==
    /\ CanBegin(p)
    /\ req' = [req EXCEPT ![p] = r]
    /\ prior' = [prior EXCEPT ![p] = Returned]

Fail(p, err) ==
    /\ pc' = [pc EXCEPT ![p] = "done"]
    /\ res' = [res EXCEPT ![p] = [NoRes EXCEPT !.error = err]]

Succeed(p, tok, n) ==
    /\ pc' = [pc EXCEPT ![p] = "done"]
    /\ res' = [res EXCEPT ![p] = [success |-> TRUE, error |-> None, token |-> tok, count |-> n,
                                  accessToken |-> loc[p].accessToken]]

Goto(p, label) ==
    /\ pc' = [pc EXCEPT ![p] = label]
    /\ UNCHANGED res

\* The error each operation's catch block answers with.
CatchError(op) ==
    CASE op = "login" -> "Login failed"
      [] op = "refresh" -> "Token refresh failed"
      [] op = "logout" -> "Logout failed"
      [] op = "changePassword" -> "Password change failed"
      [] OTHER -> "Failed to revoke sessions"

\* ------------------------------------------------------------ AuthService.login
\* Mutation: each cause of a refused login gets a message of its own.
LoginErrorPrecise(cause) ==
    CASE cause = "no_account" -> "Admin not found"
      [] cause = "inactive" -> "Account is disabled"
      [] OTHER -> "Invalid password"

\* The error login returns for each cause it logs.
LoginError(cause) ==
    CASE cause = "no_account" -> "Invalid email or password"
      [] cause = "inactive" -> "Account is disabled"
      [] OTHER -> "Invalid email or password"

\* Why login refuses the credentials, None when it does not.
LoginCause(a, password) ==
    IF a = None THEN "no_account"
    ELSE IF ~admins[a].isActive THEN "inactive"
    ELSE IF ~ComparePassword(password, admins[a].password) THEN "wrong_password"
    ELSE None

\* Mutation: lastLoginAt is written as soon as the account is found.
LoginFindTouching(p, email, password) ==
    LET a == AdminByEmail(email)
        cause == LoginCause(a, password) IN
    /\ Begin(p, [NoReq EXCEPT !.op = "login", !.email = email, !.password = password,
                              !.adminId = a])
    /\ loc' = [loc EXCEPT ![p].cause = cause]
    /\ admins' = IF a = None THEN admins ELSE [admins EXCEPT ![a].lastLoginAt = now]
    /\ IF cause # None THEN Fail(p, LoginError(cause)) ELSE Goto(p, "login_create")
    /\ UNCHANGED <<refreshTokens, auditLogs, nextId, now, pwEpoch, edge>>

LoginFind(p, email, password) ==
    LET a == AdminByEmail(email)
        cause == LoginCause(a, password) IN
    /\ Begin(p, [NoReq EXCEPT !.op = "login", !.email = email, !.password = password,
                              !.adminId = a])
    /\ IF cause # None
       THEN /\ Fail(p, LoginError(cause))
            /\ loc' = [loc EXCEPT ![p].cause = cause]
       ELSE /\ Goto(p, "login_create")
            /\ loc' = [loc EXCEPT ![p].accessToken = GenerateAccessToken(ClaimsOf(a), now)]
    /\ UNCHANGED <<store, now, pwEpoch, edge>>

LoginCreate(p) ==
    /\ pc[p] = "login_create"
    /\ IF UniqueViolation(refreshTokens, EmptyToken)
       THEN /\ Fail(p, "Login failed")
            /\ UNCHANGED <<refreshTokens, nextId, loc>>
       ELSE /\ refreshTokens' = CreatePlaceholder(refreshTokens, nextId, req[p].adminId,
                                                  now, pwEpoch[req[p].adminId])
            /\ nextId' = nextId + 1
            /\ loc' = [loc EXCEPT ![p].newId = nextId]
            /\ Goto(p, "login_update")
    /\ UNCHANGED <<admins, auditLogs, now, req, prior, pwEpoch, edge>>

LoginUpdate(p) ==
    LET tok == GenerateRefreshToken(req[p].adminId, loc[p].newId, now) IN
    /\ pc[p] = "login_update"
    /\ IF ~Exists(refreshTokens, loc[p].newId)
       THEN /\ Fail(p, "Login failed")
            /\ UNCHANGED <<refreshTokens, loc>>
       ELSE /\ refreshTokens' = UpdateToken(refreshTokens, loc[p].newId, tok)
            /\ loc' = [loc EXCEPT ![p].newToken = tok]
            /\ Goto(p, "login_touch")
    /\ UNCHANGED <<admins, auditLogs, nextId, now, req, prior, pwEpoch, edge>>

LoginTouch(p) ==
    /\ pc[p] = "login_touch"
    /\ admins' = [admins EXCEPT ![req[p].adminId].lastLoginAt = now]
    /\ Goto(p, "login_audit")
    /\ UNCHANGED <<refreshTokens, auditLogs, nextId, now, req, loc, prior, pwEpoch, edge>>

\* Mutation: a refused audit append reaches login's catch block.
LoginAuditStrict(p, ok) ==
    /\ pc[p] = "login_audit"
    /\ auditLogs' = CreateAuditLog(auditLogs, LoginEvent(p, req[p].adminId), ok)
    /\ loc' = [loc EXCEPT ![p].auditFailed = ~ok]
    /\ IF ok THEN Succeed(p, loc[p].newToken, 0) ELSE Fail(p, CatchError("login"))
    /\ UNCHANGED <<admins, refreshTokens, nextId, now, req, prior, pwEpoch, edge>>

LoginAudit(p, ok) ==
    /\ pc[p] = "login_audit"
    /\ auditLogs' = CreateAuditLog(auditLogs, LoginEvent(p, req[p].adminId), ok)
    /\ loc' = [loc EXCEPT ![p].auditFailed = ~ok]
    /\ Succeed(p, loc[p].newToken, 0)
    /\ UNCHANGED <<admins, refreshTokens, nextId, now, req, prior, pwEpoch, edge>>

\* ------------------------------------------------------------ AuthService.refreshToken
\* A record found expired sends the call to "refresh_expired" (delete the record, answer
\* 'Refresh token expired'), which the specifications that move the clock reach.
\* Mutation: refreshToken that deletes the record of a disabled account's token.
RefreshFindConsuming(p, tok) ==
    LET found == FindUnique(refreshTokens, tok.tokenId, tok) IN
    /\ Begin(p, [NoReq EXCEPT !.op = "refresh", !.token = tok])
    /\ IF ~VerifyRefreshToken(tok, now)
       THEN Fail(p, "Token refresh failed") /\ UNCHANGED <<loc, refreshTokens>>
       ELSE IF found = {}
       THEN Fail(p, "Invalid refresh token") /\ UNCHANGED <<loc, refreshTokens>>
       ELSE LET rec == CHOOSE r \in found : TRUE IN
            IF rec.expiresAt < now
            THEN /\ Goto(p, "refresh_expired") /\ loc' = [loc EXCEPT ![p].rec = rec]
                 /\ UNCHANGED refreshTokens
            ELSE IF ~admins[rec.adminId].isActive
            THEN /\ Fail(p, "Account is disabled") /\ loc' = [loc EXCEPT ![p].rec = rec]
                 /\ refreshTokens' = DeleteById(refreshTokens, rec.id)
            ELSE /\ Goto(p, "refresh_create")
                 /\ loc' = [loc EXCEPT ![p].rec = rec,
                                       ![p].accessToken =
                                           GenerateAccessToken(ClaimsOf(rec.adminId), now)]
                 /\ UNCHANGED refreshTokens
    /\ UNCHANGED <<admins, auditLogs, nextId, now, pwEpoch, edge>>

\* Mutation: refreshToken that takes a token without a record for a reused one and
\* deletes every record of the token's owner.
RefreshFindRevoking(p, tok) ==
    LET found == FindUnique(refreshTokens, tok.tokenId, tok) IN
    /\ Begin(p, [NoReq EXCEPT !.op = "refresh", !.token = tok])
    /\ IF ~VerifyRefreshToken(tok, now)
       THEN Fail(p, "Token refresh failed") /\ UNCHANGED <<loc, refreshTokens>>
       ELSE IF found = {}
       THEN /\ Fail(p, "Invalid refresh token")
            /\ refreshTokens' = DeleteManyByAdmin(refreshTokens, tok.adminId)
            /\ UNCHANGED loc
       ELSE LET rec == CHOOSE r \in found : TRUE IN
            /\ UNCHANGED refreshTokens
            /\ IF rec.expiresAt < now
               THEN Goto(p, "refresh_expired") /\ loc' = [loc EXCEPT ![p].rec = rec]
               ELSE IF ~admins[rec.adminId].isActive
               THEN Fail(p, "Account is disabled") /\ loc' = [loc EXCEPT ![p].rec = rec]
               ELSE /\ Goto(p, "refresh_create")
                    /\ loc' = [loc EXCEPT ![p].rec = rec,
                                          ![p].accessToken =
                                              GenerateAccessToken(ClaimsOf(rec.adminId), now)]
    /\ UNCHANGED <<admins, auditLogs, nextId, now, pwEpoch, edge>>

RefreshFind(p, tok) ==
    LET found == FindUnique(refreshTokens, tok.tokenId, tok) IN
    /\ Begin(p, [NoReq EXCEPT !.op = "refresh", !.token = tok])
    /\ IF ~VerifyRefreshToken(tok, now)
       THEN Fail(p, "Token refresh failed") /\ UNCHANGED loc
       ELSE IF found = {}
       THEN Fail(p, "Invalid refresh token") /\ UNCHANGED loc
       ELSE LET rec == CHOOSE r \in found : TRUE IN
            IF rec.expiresAt < now
            THEN Goto(p, "refresh_expired") /\ loc' = [loc EXCEPT ![p].rec = rec]
            ELSE IF ~admins[rec.adminId].isActive
            THEN Fail(p, "Account is disabled") /\ loc' = [loc EXCEPT ![p].rec = rec]
            ELSE /\ Goto(p, "refresh_create")
                 /\ loc' = [loc EXCEPT ![p].rec = rec,
                                       ![p].accessToken =
                                           GenerateAccessToken(ClaimsOf(rec.adminId), now)]
    /\ UNCHANGED <<store, now, pwEpoch, edge>>

RefreshCreate(p) ==
    /\ pc[p] = "refresh_create"
    /\ IF UniqueViolation(refreshTokens, EmptyToken)
       THEN /\ Fail(p, "Token refresh failed")
            /\ UNCHANGED <<refreshTokens, nextId, loc>>
       ELSE /\ refreshTokens' = CreatePlaceholder(refreshTokens, nextId, loc[p].rec.adminId,
                                                  now, loc[p].rec.gen)
            /\ nextId' = nextId + 1
            /\ loc' = [loc EXCEPT ![p].newId = nextId]
            /\ Goto(p, "refresh_update")
    /\ UNCHANGED <<admins, auditLogs, now, req, prior, pwEpoch, edge>>

RefreshUpdate(p) ==
    LET tok == GenerateRefreshToken(loc[p].rec.adminId, loc[p].newId, now) IN
    /\ pc[p] = "refresh_update"
    /\ IF ~Exists(refreshTokens, loc[p].newId)
       THEN /\ Fail(p, "Token refresh failed")
            /\ UNCHANGED <<refreshTokens, loc>>
       ELSE /\ refreshTokens' = UpdateToken(refreshTokens, loc[p].newId, tok)
            /\ loc' = [loc EXCEPT ![p].newToken = tok]
            /\ Goto(p, "refresh_delete")
    /\ UNCHANGED <<admins, auditLogs, nextId, now, req, prior, pwEpoch, edge>>

RefreshDelete(p) ==
    /\ pc[p] = "refresh_delete"
    /\ IF ~Exists(refreshTokens, loc[p].rec.id)
       THEN /\ Fail(p, "Token refresh failed")
            /\ UNCHANGED refreshTokens
       ELSE /\ refreshTokens' = DeleteById(refreshTokens, loc[p].rec.id)
            /\ Succeed(p, loc[p].newToken, 0)
    /\ UNCHANGED <<admins, auditLogs, nextId, now, req, loc, prior, pwEpoch, edge>>

\* ------------------------------------------------------------ AuthService.logout
LogoutFind(p, tok, adminId) ==
    LET found == FindFirst(refreshTokens, tok, adminId) IN
    /\ Begin(p, [NoReq EXCEPT !.op = "logout", !.token = tok, !.adminId = adminId])
    /\ IF found = {}
       THEN Succeed(p, EmptyToken, 0) /\ UNCHANGED loc
       ELSE /\ loc' = [loc EXCEPT ![p].rec = CHOOSE r \in found : TRUE]
            /\ Goto(p, "logout_delete")
    /\ UNCHANGED <<store, now, pwEpoch, edge>>

LogoutDelete(p) ==
    /\ pc[p] = "logout_delete"
    /\ IF ~Exists(refreshTokens, loc[p].rec.id)
       THEN /\ Fail(p, "Logout failed")
            /\ UNCHANGED refreshTokens
       ELSE /\ refreshTokens' = DeleteById(refreshTokens, loc[p].rec.id)
            /\ Goto(p, "logout_audit")
    /\ UNCHANGED <<admins, auditLogs, nextId, now, req, loc, prior, pwEpoch, edge>>

LogoutAudit(p, ok) ==
    /\ pc[p] = "logout_audit"
    /\ auditLogs' = CreateAuditLog(auditLogs, LogoutEvent(p, req[p].adminId), ok)
    /\ loc' = [loc EXCEPT ![p].auditFailed = ~ok]
    /\ Succeed(p, EmptyToken, 0)
    /\ UNCHANGED <<admins, refreshTokens, nextId, now, req, prior, pwEpoch, edge>>

\* ------------------------------------------------------------ AuthService.changePassword
ChangePasswordFind(p, adminId, current, new) ==
    /\ Begin(p, [NoReq EXCEPT !.op = "changePassword", !.adminId = adminId,
                              !.password = current, !.newPassword = new])
    /\ IF ~ComparePassword(current, admins[adminId].password)
       THEN Fail(p, "Current password is incorrect")
       ELSE IF ~ValidatePasswordStrength(new)
       THEN Fail(p, "Password does not meet security requirements")
       ELSE Goto(p, "password_update")
    /\ UNCHANGED <<store, now, loc, pwEpoch, edge>>

ChangePasswordUpdate(p) ==
    /\ pc[p] = "password_update"
    /\ admins' = [admins EXCEPT ![req[p].adminId].password = HashPassword(req[p].newPassword)]
    /\ Goto(p, "password_revoke")
    /\ UNCHANGED <<refreshTokens, auditLogs, nextId, now, req, loc, prior, pwEpoch, edge>>

ChangePasswordRevoke(p) ==
    /\ pc[p] = "password_revoke"
    /\ refreshTokens' = DeleteManyByAdmin(refreshTokens, req[p].adminId)
    /\ pwEpoch' = [pwEpoch EXCEPT ![req[p].adminId] = @ + 1]
    /\ loc' = [loc EXCEPT ![p].epoch = pwEpoch[req[p].adminId] + 1]
    /\ Goto(p, "password_audit")
    /\ UNCHANGED <<admins, auditLogs, nextId, now, req, prior, edge>>

ChangePasswordAudit(p, ok) ==
    /\ pc[p] = "password_audit"
    /\ auditLogs' = CreateAuditLog(auditLogs, PasswordChangedEvent(p, req[p].adminId), ok)
    /\ loc' = [loc EXCEPT ![p].auditFailed = ~ok]
    /\ Succeed(p, EmptyToken, 0)
    /\ UNCHANGED <<admins, refreshTokens, nextId, now, req, prior, pwEpoch, edge>>

\* ------------------------------------------------------------ AuthController.revokeAllSessions
RevokeAllDelete(p, adminId) ==
    /\ Begin(p, [NoReq EXCEPT !.op = "revokeAll", !.adminId = adminId])
    /\ refreshTokens' = DeleteManyByAdmin(refreshTokens, adminId)
    /\ loc' = [loc EXCEPT ![p].count = DeleteManyCount(refreshTokens, adminId)]
    /\ Goto(p, "revoke_audit")
    /\ UNCHANGED <<admins, auditLogs, nextId, now, pwEpoch, edge>>

RevokeAllAudit(p, ok) ==
    /\ pc[p] = "revoke_audit"
    /\ auditLogs' = CreateAuditLog(auditLogs, SessionsRevokedEvent(p, req[p].adminId), ok)
    /\ loc' = [loc EXCEPT ![p].auditFailed = ~ok]
    /\ Succeed(p, EmptyToken, loc[p].count)
    /\ UNCHANGED <<admins, refreshTokens, nextId, now, req, prior, pwEpoch, edge>>

\* ------------------------------------------------------------ specification
Next ==
    \E p \in Calls :
        \/ \E e \in Emails, pw \in TypedPasswords : LoginFind(p, e, pw)
        \/ LoginCreate(p)
        \/ LoginUpdate(p)
        \/ LoginTouch(p)
        \/ LoginAudit(p, TRUE)
        \/ \E t \in PresentableTokens : RefreshFind(p, t)
        \/ RefreshCreate(p)
        \/ RefreshUpdate(p)
        \/ RefreshDelete(p)
        \/ \E t \in PresentableTokens, a \in AuthedAdmins : LogoutFind(p, t, a)
        \/ LogoutDelete(p)
        \/ LogoutAudit(p, TRUE)
        \/ \E a \in AuthedAdmins, cur \in TypedPasswords, new \in NewPasswords :
               ChangePasswordFind(p, a, cur, new)
        \/ ChangePasswordUpdate(p)
        \/ ChangePasswordRevoke(p)
        \/ ChangePasswordAudit(p, TRUE)
        \/ \E a \in AuthedAdmins : RevokeAllDelete(p, a)
        \/ RevokeAllAudit(p, TRUE)

Spec == Init /\ [][Next]_vars

\* ------------------------------------------------------------ store failures
AwaitingStore(p) ==
    pc[p] \in {"login_create", "login_update", "login_touch",
               "refresh_create", "refresh_update", "refresh_delete",
               "logout_delete", "password_update", "password_revoke"}

\* The store operation a call is waiting for throws: the call's catch block runs.
StoreFails(p) ==
    /\ AwaitingStore(p)
    /\ Fail(p, CatchError(req[p].op))
    /\ UNCHANGED <<store, now, req, loc, prior, pwEpoch, edge>>

\* revokeAllSessions' deleteMany throws: nothing is deleted, the answer is 500.
RevokeAllFails(p, adminId) ==
    /\ Begin(p, [NoReq EXCEPT !.op = "revokeAll", !.adminId = adminId])
    /\ Fail(p, CatchError("revokeAll"))
    /\ UNCHANGED <<store, now, loc, pwEpoch, edge>>

\* prisma.auditLog.create throws inside createAuditLog.
AuditFaults ==
    \E p \in Calls :
        \/ LoginAudit(p, FALSE)
        \/ LogoutAudit(p, FALSE)
        \/ ChangePasswordAudit(p, FALSE)
        \/ RevokeAllAudit(p, FALSE)

Faults ==
    \E p \in Calls :
        \/ StoreFails(p)
        \/ \E a \in AuthedAdmins : RevokeAllFails(p, a)

\* The program with a store that may refuse an audit append.
SpecAuditFaulty == Init /\ [][Next \/ AuditFaults]_vars

\* The program with a store that may refuse any operation.
SpecFaulty == Init /\ [][Next \/ AuditFaults \/ Faults]_vars

\* ------------------------------------------------------------ login alone
\* Concurrent calls of login, with a store that may refuse any of their operations.
NextLogin ==
    \E p \in Calls :
        \/ \E e \in Emails, pw \in TypedPasswords : LoginFind(p, e, pw)
        \/ LoginCreate(p)
        \/ LoginUpdate(p)
        \/ LoginTouch(p)
        \/ LoginAudit(p, TRUE)
        \/ LoginAudit(p, FALSE)
        \/ StoreFails(p)

SpecLogin == Init /\ [][NextLogin]_vars

\* ------------------------------------------------------------ credentials
\* No route writes isActive: an account is disabled or enabled in the database.
SetActive(a, b) ==
    /\ admins[a].isActive # b
    /\ admins' = [admins EXCEPT ![a].isActive = b]
    /\ UNCHANGED <<refreshTokens, auditLogs, nextId, now, pc, req, loc, res, prior,
                   pwEpoch, edge>>

\* Concurrent calls of login; between them accounts are disabled and enabled.
NextCredentials ==
    \/ \E p \in Calls :
           \/ \E e \in Emails, pw \in TypedPasswords : LoginFind(p, e, pw)
           \/ LoginCreate(p)
           \/ LoginUpdate(p)
           \/ LoginTouch(p)
           \/ LoginAudit(p, TRUE)
    \/ \E a \in AdminIds, b \in BOOLEAN : Quiet /\ SetActive(a, b)

SpecCredentials == Init /\ [][NextCredentials]_vars

\* AuthController.login: the status and the message of the response.
LoginResponse(r) ==
    [status |-> IF r.success THEN 200 ELSE 401,
     message |-> IF r.success THEN "Login successful" ELSE r.error]

\* ------------------------------------------------------------ one limiter
\* A request reaches limiter l: the store adds its hit and hands back the count.  A
\* request is decided before MaxInFlight later requests with its key have arrived.
\* Mutation: the limiters count in one store, so a hit counts under every limiter.
LimiterIncrementShared(l, k) ==
    /\ hits[l][k] < Max(l) + Overshoot
    /\ \A f \in flight : f.totalHits + MaxInFlight > hits[l][k] + 1
    /\ hits' = [m \in Limiters |-> [hits[m] EXCEPT ![k] = @ + 1]]
    /\ flight' = flight \cup {[limiter |-> l, key |-> k, totalHits |-> TotalHits(hits[l][k])]}
    /\ UNCHANGED <<session, now, config, jwts, admitted, served, outer>>

LimiterIncrement(l, k) ==
    /\ hits[l][k] < Max(l) + Overshoot
    /\ \A f \in flight : f.totalHits + MaxInFlight > hits[l][k] + 1
    /\ hits' = [hits EXCEPT ![l][k] = @ + 1]
    /\ flight' = flight \cup {[limiter |-> l, key |-> k, totalHits |-> TotalHits(hits[l][k])]}
    /\ UNCHANGED <<session, now, config, jwts, admitted, served, outer>>

\* The request compares the count it got: handler (429) or next().
LimiterDecide(f) ==
    /\ f \in flight
    /\ flight' = flight \ {f}
    /\ admitted' = IF Exceeds(f.totalHits, f.limiter) THEN admitted
                   ELSE [admitted EXCEPT ![f.limiter][f.key] = @ + 1]
    /\ UNCHANGED <<session, now, config, jwts, hits, served, outer>>

\* windowMs has passed: the limiter's store forgets its counts.  The timer cannot fire
\* between a request's increment and its decision, which run in one turn of the loop.
WindowElapses(l) ==
    /\ \A f \in flight : f.limiter # l
    /\ \E k \in Clients : hits[l][k] > 0
    /\ hits' = [hits EXCEPT ![l] = [k \in Clients |-> 0]]
    /\ admitted' = [admitted EXCEPT ![l] = [k \in Clients |-> 0]]
    /\ UNCHANGED <<session, now, config, jwts, flight, served, outer>>

\* The counters are exercised one at a time: every other limiter and key is at zero.
OnlyCounter(l, k) ==
    \A m \in Limiters, j \in Clients : (m # l \/ j # k) => hits[m][j] = 0

NextLimiter ==
    \/ \E l \in Limiters, k \in Clients : OnlyCounter(l, k) /\ LimiterIncrement(l, k)
    \/ \E f \in flight : LimiterDecide(f)
    \/ \E l \in Limiters : WindowElapses(l)

SpecLimiter == Init /\ [][NextLimiter]_vars

\* ------------------------------------------------------------ POST /api/auth/login
\* What a limiter's handler answers.
Refusal(l) == [status |-> 429, retryAfter |-> RetryAfterSeconds(l)]

\* What AuthController.login answers to wrong credentials.
Unauthorized ==
    [status |-> LoginResponse([NoRes EXCEPT !.error = LoginError("wrong_password")]).status,
     retryAfter |-> 0]

\* The limiters a login request passes, in order: app.use(generalRateLimit), then the
\* route's adminRateLimit.
LoginLimiters == <<"general", "admin">>

\* The first limiter of the chain that refuses a request of client k, 0 when none does.
RECURSIVE FirstRefusing(_, _, _)
FirstRefusing(chain, k, i) ==
    IF i > Len(chain) THEN 0
    ELSE IF Exceeds(TotalHits(hits[chain[i]][k]), chain[i]) THEN i
    ELSE FirstRefusing(chain, k, i + 1)

\* One login attempt with wrong credentials from client k, from arrival to response: each
\* limiter it reaches counts it; login itself changes nothing.
LoginAttempt(k) ==
    LET stop == FirstRefusing(LoginLimiters, k, 1)
        reached == {LoginLimiters[i] : i \in
                      {j \in 1..Len(LoginLimiters) : stop = 0 \/ j <= stop}}
        passed == {LoginLimiters[i] : i \in
                      {j \in 1..Len(LoginLimiters) : stop = 0 \/ j < stop}} IN
    /\ Len(served[k]) < MaxAttempts
    /\ flight = {}
    /\ hits' = [l \in Limiters |->
                  IF l \in reached THEN [hits[l] EXCEPT ![k] = @ + 1] ELSE hits[l]]
    /\ admitted' = [l \in Limiters |->
                      IF l \in passed THEN [admitted[l] EXCEPT ![k] = @ + 1] ELSE admitted[l]]
    /\ served' = [served EXCEPT ![k] =
                     Append(@, IF stop = 0 THEN Unauthorized ELSE Refusal(LoginLimiters[stop]))]
    /\ UNCHANGED <<session, now, config, jwts, flight, outer>>

NextAdmission == \E k \in Clients : LoginAttempt(k)

\* Clients sending login attempts with wrong credentials within one window.
SpecAdmission == Init /\ [][NextAdmission]_vars

\* ------------------------------------------------------------ JWTUtils alone
\* Startup under any environment the check of requiredEnvVars lets through.
InitJwt == (\E env \in Envs : Accepted(env) /\ config = LoadConfig(env)) /\ Fresh

GenerateAccess(a) ==
    /\ Cardinality(minted) < MaxMinted
    /\ minted' = minted \cup {[class |-> "access", claims |-> ClaimsOf(a), at |-> now,
                                token |-> GenerateAccessToken(ClaimsOf(a), now)]}
    /\ UNCHANGED <<session, now, config, verdict, limits, outer>>

GenerateRefresh(a, id) ==
    /\ Cardinality(minted) < MaxMinted
    /\ minted' = minted \cup {[class |-> "refresh", claims |-> ClaimsOf(a), at |-> now,
                                token |-> GenerateRefreshToken(a, id, now)]}
    /\ UNCHANGED <<session, now, config, verdict, limits, outer>>

\* What a client can present: a generated token or one signed with another key.
Forgery == [class |-> "forged", claims |-> ClaimsOf("a1"), at |-> 0, token |-> ForgedToken]
Presentable == minted \cup {Forgery}

\* JWTUtils.verifyAccessToken(m.token): the payload, or an error thrown.
VerifyAccess(m) ==
    LET ok == VerifyAccessToken(m.token, now) IN
    /\ verdict' = [of |-> m, by |-> "access", at |-> now, ok |-> ok,
                   payload |-> IF ok THEN Decoded(m.token) ELSE Decoded(EmptyToken)]
    /\ UNCHANGED <<session, now, config, minted, limits, outer>>

\* JWTUtils.verifyRefreshToken(m.token)
VerifyRefresh(m) ==
    LET ok == VerifyRefreshToken(m.token, now) IN
    /\ verdict' = [of |-> m, by |-> "refresh", at |-> now, ok |-> ok,
                   payload |-> IF ok THEN Decoded(m.token) ELSE Decoded(EmptyToken)]
    /\ UNCHANGED <<session, now, config, minted, limits, outer>>

\* Time passes, five or ten minutes at a time.
ClockSteps == {5, 10}
Tick(d) ==
    /\ now + d <= MaxNow
    /\ now' = now + d
    /\ UNCHANGED <<session, config, jwts, limits, outer>>

NextJwt ==
    \/ \E a \in AdminIds : GenerateAccess(a)
    \/ \E a \in AdminIds : GenerateRefresh(a, 1)
    \/ \E m \in Presentable : VerifyAccess(m)
    \/ \E m \in Presentable : VerifyRefresh(m)
    \/ \E d \in ClockSteps : Tick(d)

SpecJwt == InitJwt /\ [][NextJwt]_vars

\* ------------------------------------------------------------ keep-alive job
\* prisma.auditLog.deleteMany({where: {createdAt: {lt: thirtyDaysAgo}}})
CleanupOldAuditLogs(logs, t) ==
    LET Kept(ev) == ~(ev.createdAt < t - RetentionDays * MinutesPerDay) IN
    SelectSeq(logs, Kept)

\* KeepAliveService.pingServer, run by the cron task and by triggerPing: it touches the
\* database and, when Math.random() < 0.1 (cleanup), deletes the old audit events.
PingServer(cleanup) ==
    /\ auditLogs' = IF cleanup THEN CleanupOldAuditLogs(auditLogs, now) ELSE auditLogs
    /\ UNCHANGED <<admins, refreshTokens, nextId, now, pc, req, loc, res, prior, pwEpoch, edge>>

\* Days pass: the retention period, or a day more.
DaySteps == {RetentionDays, RetentionDays + 1}
DaysPass(d) ==
    /\ now + d * MinutesPerDay <= MaxDays * MinutesPerDay
    /\ now' = now + d * MinutesPerDay
    /\ UNCHANGED <<session, edge>>

\* Logins one at a time over a month during which the keep-alive job runs.
NextKeepAlive ==
    \/ \E p \in Calls :
           \/ \E e \in Emails, pw \in TypedPasswords : Quiet /\ LoginFind(p, e, pw)
           \/ LoginCreate(p)
           \/ LoginUpdate(p)
           \/ LoginTouch(p)
           \/ LoginAudit(p, TRUE)
    \/ \E cleanup \in BOOLEAN : PingServer(cleanup)
    \/ \E d \in DaySteps : Quiet /\ DaysPass(d)

SpecKeepAlive == Init /\ [][NextKeepAlive]_vars

\* ------------------------------------------------------------ rotation alone
\* Logins one at a time, then calls of refreshToken that overlap only with calls
\* presenting the same token value.
OnlyRotating(tok) == \A q \in Calls : InFlight(q) => req[q].op = "refresh" /\ req[q].token = tok

NextRotate ==
    \E p \in Calls :
        \/ \E e \in Emails, pw \in TypedPasswords : Quiet /\ LoginFind(p, e, pw)
        \/ LoginCreate(p)
        \/ LoginUpdate(p)
        \/ LoginTouch(p)
        \/ LoginAudit(p, TRUE)
        \/ \E t \in PresentableTokens : OnlyRotating(t) /\ RefreshFind(p, t)
        \/ RefreshCreate(p)
        \/ RefreshUpdate(p)
        \/ RefreshDelete(p)

SpecRotate == Init /\ [][NextRotate]_vars

\* ------------------------------------------------------------ request pipeline
Bodies == {"valid", "invalid", "malformed"}

\* index.ts mounts the body parsers, generalRateLimit and requestLogger before the
\* routes; the requestId middleware of middleware/request.ts is mounted nowhere.
AppChain == <<"json", "generalRateLimit", "requestLogger">>

\* The handlers each route lists, in order; /ping and the 404 handler follow the routes.
RouteChain(route) ==
    CASE route \in {"login", "refresh"} -> <<"adminRateLimit", "handleValidation", "controller">>
      [] route = "logout" -> <<"authenticateToken", "controller">>
      [] route = "change-password" -> <<"authenticateToken", "handleValidation", "controller">>
      [] route = "audit" -> <<"authenticateToken", "adminRateLimit", "getAuditStats">>
      [] route = "ping" -> <<"ping">>
      [] OTHER -> <<"notFound">>

Chain(route) == AppChain \o RouteChain(route)
Handlers(route) == {Chain(route)[i] : i \in 1..Len(Chain(route))}
LimiterOf(m) == IF m = "generalRateLimit" THEN "general" ELSE "admin"
IsLimiter(m) == m \in {"generalRateLimit", "adminRateLimit"}

\* The requests sent: every route with a body that parses, and a login whose body does not.
Routes == {"login", "refresh", "logout", "change-password", "audit", "ping", "unknown"}
Shapes == {sh \in [route : Routes, body : Bodies] :
             /\ sh.body = "invalid" => "handleValidation" \in Handlers(sh.route)
             /\ sh.body = "malformed" => sh.route = "login"}

\* res.status(status).json({..., timestamp, requestId}): a property whose value is
\* undefined is left out of the JSON text, as is one the handler never lists.
Json(status, requestId) == [status |-> status, requestId |-> requestId, timestamp |-> now]

\* uuidv4(): a fresh identifier per request.
UuidV4(n) == ToString(n)

\* requestId: req.requestId = id; next().
RequestId(h) == [h EXCEPT !.requestId = UuidV4(h.n)]

\* express.json() hands a body it cannot parse to errorHandler: 'Invalid JSON syntax'.
ErrorHandler(h) ==
    IF h.body = "malformed" THEN [h EXCEPT !.reply = Json(400, h.requestId)] ELSE h

\* A limiter whose count exceeds max answers through rateLimitHandler.
RateLimitHandler(h, l) ==
    IF Exceeds(TotalHits(hits[l][h.key]), l)
    THEN [h EXCEPT !.reply = Json(429, h.requestId)] ELSE h

HandleValidation(h) ==
    IF h.body = "invalid" THEN [h EXCEPT !.reply = Json(400, h.requestId)] ELSE h

\* authenticateToken that also asks the store whether the account is active.
AuthenticateTokenActive(h) ==
    IF h.token = NoAccessToken \/ ~VerifyAccessToken(h.token, now)
    THEN [h EXCEPT !.reply = Json(401, h.requestId)]
    ELSE IF ~admins[h.token.adminId].isActive
    THEN [h EXCEPT !.reply = Json(401, h.requestId)]
    ELSE [h EXCEPT !.admin = Decoded(h.token).adminId]

\* authenticateToken: 401 without a token or with one verifyAccessToken throws on;
\* otherwise req.admin = decoded.
AuthenticateToken(h) ==
    IF h.token = NoAccessToken \/ ~VerifyAccessToken(h.token, now)
    THEN [h EXCEPT !.reply = Json(401, h.requestId)]
    ELSE [h EXCEPT !.admin = Decoded(h.token).adminId]

\* What middleware m makes of the request: its answer, or what it attaches before next().
RunMiddleware(h, m) ==
    CASE m = "json" -> ErrorHandler(h)
      [] IsLimiter(m) -> RateLimitHandler(h, LimiterOf(m))
      [] m = "requestId" -> RequestId(h)
      [] m = "requestLogger" -> h
      [] m = "handleValidation" -> HandleValidation(h)
      [] m = "authenticateToken" -> AuthenticateToken(h)
      [] m = "getAuditStats" -> [h EXCEPT !.reply = Json(200, h.requestId)]
      [] m = "ping" -> [h EXCEPT !.reply = Json(200, Undefined)]
      [] OTHER -> [h EXCEPT !.reply = Json(404, Undefined)]

Pending == http.at > 0 /\ http.reply = NoReply
ReachedController ==
    http.at > 0 /\ http.at <= Len(Chain(http.route)) /\ Chain(http.route)[http.at] = "controller"

\* The request's controller is about to make service call p.
Serving(p, route) ==
    Pending /\ ReachedController /\ http.route = route /\ http.call = p /\ pc[p] = "idle"

\* Access tokens a client can present: those a response handed out, or a forgery.
ForgedAccessToken == [GenerateAccessToken(ClaimsOf("a1"), 0) EXCEPT !.key = "forged"]
HandedAccessTokens ==
    {res[q].accessToken : q \in {c \in Calls : Succeeded(c) /\ req[c].op \in {"login", "refresh"}}}
PresentableAccessTokens == HandedAccessTokens \cup {ForgedAccessToken, NoAccessToken}

\* A request arrives from client k once the request before it was answered.  A second
\* client is told apart from the first by a budget the first has used up.
Arrive(sh, k, tok) ==
    /\ ~Pending
    /\ http.n < NumRequests
    /\ k = "ip1" \/ \E l \in Limiters : hits[l]["ip1"] >= Max(l)
    /\ "authenticateToken" \in Handlers(sh.route) \/ tok = NoAccessToken
    /\ http' = [NoHttp EXCEPT !.n = http.n + 1, !.route = sh.route, !.key = k,
                              !.body = sh.body, !.token = tok, !.at = 1]
    /\ UNCHANGED <<session, now, config, jwts, limits, submissions>>

\* The request's next middleware runs: it answers, or calls next().  Reaching the
\* controller, the request is given the next service call.
Handle ==
    /\ Pending
    /\ http.call = 0
    /\ LET m == Chain(http.route)[http.at]
           l == LimiterOf(m)
           k == http.key
           after == RunMiddleware(http, m) IN
       IF m = "controller"
       THEN /\ \E p \in Calls : CanBegin(p) /\ http' = [http EXCEPT !.call = p]
            /\ UNCHANGED <<hits, admitted>>
       ELSE /\ IF IsLimiter(m)
               THEN /\ hits[l][k] < Max(l) + Overshoot
                    /\ hits' = [hits EXCEPT ![l][k] = @ + 1]
                    /\ admitted' = IF after.reply = NoReply
                                   THEN [admitted EXCEPT ![l][k] = @ + 1] ELSE admitted
               ELSE UNCHANGED <<hits, admitted>>
            /\ http' = [after EXCEPT !.at = IF after.reply = NoReply THEN @ + 1 ELSE @,
                                     !.ran = @ \cup {m}]
    /\ UNCHANGED <<session, now, config, jwts, flight, served, submissions>>

\* What each controller answers with, by the service's result.
ControllerStatus(route, result) ==
    IF result.success THEN 200
    ELSE CASE route \in {"login", "refresh"} -> 401
           [] route = "logout" -> 500
           [] OTHER -> 400

\* The request's service call has returned: the controller answers.
Respond ==
    /\ Pending
    /\ http.call # 0
    /\ pc[http.call] = "done"
    /\ http' = [http EXCEPT !.reply = Json(ControllerStatus(http.route, res[http.call]),
                                           http.requestId),
                            !.ran = @ \cup {"controller"}]
    /\ UNCHANGED <<session, now, config, jwts, limits, submissions>>

\* The refresh token a request body carries: one a response handed out, a forgery
\* while none was.
BodyTokens == IF HandedTokens = {} THEN {ForgedToken} ELSE HandedTokens

\* The session routes' controllers: each calls its service with what the request carries.
Controllers ==
    \E p \in Calls :
        \/ \E pw \in TypedPasswords : Serving(p, "login") /\ LoginFind(p, EmailOf("a1"), pw)
        \/ \E t \in BodyTokens : Serving(p, "refresh") /\ RefreshFind(p, t)
        \/ \E t \in BodyTokens : Serving(p, "logout") /\ LogoutFind(p, t, http.admin)
        \/ \E new \in NewPasswords :
               Serving(p, "change-password") /\ ChangePasswordFind(p, http.admin, PwOld, new)

Services ==
    \E p \in Calls :
        \/ LoginCreate(p)
        \/ LoginUpdate(p)
        \/ LoginTouch(p)
        \/ LoginAudit(p, TRUE)
        \/ RefreshCreate(p)
        \/ RefreshUpdate(p)
        \/ RefreshDelete(p)
        \/ LogoutDelete(p)
        \/ LogoutAudit(p, TRUE)
        \/ ChangePasswordUpdate(p)
        \/ ChangePasswordRevoke(p)
        \/ ChangePasswordAudit(p, TRUE)

\* The counts of a window in which client ip1 has used up limiter l's budget.
WindowUsedUp(l) ==
    [m \in Limiters |-> [k \in Clients |-> IF m = l /\ k = "ip1" THEN Max(m) ELSE 0]]

\* RATE_LIMIT_MAX_REQUESTS and RATE_LIMIT_WINDOW_MS set the general limiter's budget per
\* deployment while adminRateLimit's is fixed: either may be the one a client exhausts.
InitHttp ==
    /\ config = LoadConfig(DeployedEnv)
    /\ \E l \in {None, "general", "admin"} : FreshWith(WindowUsedUp(l))

NextHttp ==
    \/ \E sh \in Shapes, k \in Clients, tok \in PresentableAccessTokens : Arrive(sh, k, tok)
    \/ Handle
    \/ Controllers
    \/ Services
    \/ Respond
    \/ ~Pending /\ SetActive("a1", FALSE)
    \/ ~Pending /\ HandedAccessTokens # {} /\ Tick(AccessTtlMinutes)

\* Requests served one after another by the application.
SpecHttp == InitHttp /\ [][NextHttp]_vars

\* ------------------------------------------------------------ SubmissionService.createSubmission
SubmitterEmails == {"t1@x", "t2@x"}
TeamNames == {"team1", "team2"}

\* prisma.submission.findUnique({where: {email}})
FindSubmission(subs, email) == {s \in subs : s.email = email}

\* Mutation: the email column without its unique index.
UniqueEmailUnchecked(subs, email) == FALSE

\* Submission.email @unique: create throws P2002 when the email is stored already.
UniqueEmailViolation(subs, email) == \E s \in subs : s.email = email

SubmissionCreatedEvent(p, id) ==
    [action |-> "CREATE", entityType |-> "submission", entityId |-> id,
     adminId |-> None, description |-> "submission created", createdAt |-> now, by |-> p]

CreateSubmissionFind(p, email, teamName) ==
    /\ Begin(p, [op |-> "createSubmission", adminId |-> None, email |-> email,
                 password |-> <<>>, token |-> EmptyToken, newPassword |-> <<>>,
                 teamName |-> teamName])
    /\ IF FindSubmission(submissions, email) # {}
       THEN Fail(p, "A submission with this email already exists")
       ELSE Goto(p, "submission_create")
    /\ UNCHANGED <<store, now, loc, pwEpoch, config, jwts, limits, outer>>

CreateSubmissionCreate(p) ==
    /\ pc[p] = "submission_create"
    /\ IF UniqueEmailViolation(submissions, req[p].email)
       THEN /\ Fail(p, "Failed to create submission")
            /\ UNCHANGED <<submissions, nextId, loc>>
       ELSE /\ submissions' = submissions \cup
                   {[id |-> nextId, email |-> req[p].email, teamName |-> req[p].teamName,
                     status |-> "PENDING", by |-> p]}
            /\ nextId' = nextId + 1
            /\ loc' = [loc EXCEPT ![p].newId = nextId]
            /\ Goto(p, "submission_audit")
    /\ UNCHANGED <<admins, refreshTokens, auditLogs, now, req, prior, pwEpoch, config, jwts,
                   limits, http>>

CreateSubmissionAudit(p, ok) ==
    /\ pc[p] = "submission_audit"
    /\ auditLogs' = CreateAuditLog(auditLogs, SubmissionCreatedEvent(p, loc[p].newId), ok)
    /\ loc' = [loc EXCEPT ![p].auditFailed = ~ok]
    /\ Succeed(p, EmptyToken, 0)
    /\ UNCHANGED <<admins, refreshTokens, nextId, now, req, prior, pwEpoch, edge>>

NextSubmission ==
    \E p \in Calls :
        \/ \E e \in SubmitterEmails, t \in TeamNames : CreateSubmissionFind(p, e, t)
        \/ CreateSubmissionCreate(p)
        \/ CreateSubmissionAudit(p, TRUE)
        \/ CreateSubmissionAudit(p, FALSE)

\* Concurrent calls of createSubmission.
SpecSubmission == Init /\ [][NextSubmission]_vars

\* ------------------------------------------------------------ AuthService.cleanupExpiredTokens
\* prisma.refreshToken.deleteMany({where: {expiresAt: {lt: new Date()}}})
DeleteManyExpired(tokens, t) == {r \in tokens : ~(r.expiresAt < t)}

CleanupExpiredTokens ==
    /\ refreshTokens' = DeleteManyExpired(refreshTokens, now)
    /\ UNCHANGED <<admins, auditLogs, nextId, now, pc, req, loc, res, prior, pwEpoch, edge>>

\* refreshToken found its record expired: it deletes the record and refuses.
RefreshExpired(p) ==
    /\ pc[p] = "refresh_expired"
    /\ IF ~Exists(refreshTokens, loc[p].rec.id)
       THEN /\ Fail(p, "Token refresh failed")
            /\ UNCHANGED refreshTokens
       ELSE /\ refreshTokens' = DeleteById(refreshTokens, loc[p].rec.id)
            /\ Fail(p, "Refresh token expired")
    /\ UNCHANGED <<admins, auditLogs, nextId, now, req, loc, prior, pwEpoch, edge>>

\* The instants at which something happens around a record's expiry: now, two minutes
\* later, a minute before the seven days are over and a minute after.  While a call is
\* under way no more than two minutes pass.
SweepInstants == {0, 2, RefreshTtlDays * MinutesPerDay - 1, RefreshTtlDays * MinutesPerDay + 1}
TimePasses(t) ==
    /\ t > now
    /\ Quiet \/ t - now <= 2
    /\ now' = t
    /\ UNCHANGED <<session, edge>>

\* Logins and refreshes one call at a time, while time passes between their store
\* operations and the sweep runs at any moment.
NextSweep ==
    \/ \E p \in Calls :
           \/ \E pw \in TypedPasswords : Quiet /\ LoginFind(p, EmailOf("a1"), pw)
           \/ LoginCreate(p)
           \/ LoginUpdate(p)
           \/ LoginTouch(p)
           \/ LoginAudit(p, TRUE)
           \/ \E t \in PresentableTokens : Quiet /\ RefreshFind(p, t)
           \/ RefreshExpired(p)
           \/ RefreshCreate(p)
           \/ RefreshUpdate(p)
           \/ RefreshDelete(p)
    \/ CleanupExpiredTokens
    \/ \E t \in SweepInstants : TimePasses(t)

SpecSweep == Init /\ [][NextSweep]_vars

\* ------------------------------------------------------------ password change alone
\* Logins and password changes, with a store that may refuse any of their operations.
NextPassword ==
    \E p \in Calls :
        \/ \E a \in AdminIds : LoginFind(p, EmailOf(a), PwOld)
        \/ LoginCreate(p)
        \/ LoginUpdate(p)
        \/ LoginTouch(p)
        \/ LoginAudit(p, TRUE)
        \/ \E a \in AuthedAdmins, cur \in TypedPasswords, new \in NewPasswords :
               ChangePasswordFind(p, a, cur, new)
        \/ ChangePasswordUpdate(p)
        \/ ChangePasswordRevoke(p)
        \/ ChangePasswordAudit(p, TRUE)
        \/ ChangePasswordAudit(p, FALSE)
        \/ StoreFails(p)

SpecPassword == Init /\ [][NextPassword]_vars

\* ------------------------------------------------------------ PUT /api/v1/auth/change-password
\* A change-password request arrives with its three fields; whether handleValidation
\* will let it pass is what adminChangePasswordValidation makes of them.
ArriveChange(form, tok) ==
    /\ ~Pending
    /\ Quiet
    /\ http.n < NumRequests
    /\ http' = [NoHttp EXCEPT !.n = http.n + 1, !.route = "change-password", !.key = "ip1",
                              !.body = IF AdminChangePasswordValidation(form) = {}
                                       THEN "valid" ELSE "invalid",
                              !.form = form, !.token = tok, !.at = 1]
    /\ UNCHANGED <<session, now, config, jwts, limits, submissions>>

\* Logins through the service and change-password requests through their route, one
\* after another.
NextChange ==
    \/ \E form \in Forms, tok \in HandedAccessTokens : ArriveChange(form, tok)
    \/ Handle
    \/ Respond
    \/ \E p \in Calls :
           \/ Quiet /\ ~Pending /\ LoginFind(p, EmailOf("a1"), admins["a1"].password[2])
           \/ LoginCreate(p)
           \/ LoginUpdate(p)
           \/ LoginTouch(p)
           \/ LoginAudit(p, TRUE)
           \/ Serving(p, "change-password")
                  /\ ChangePasswordFind(p, http.admin, http.form.currentPassword,
                                        http.form.newPassword)
           \/ ChangePasswordUpdate(p)
           \/ ChangePasswordRevoke(p)
           \/ ChangePasswordAudit(p, TRUE)

SpecChange == Init /\ [][NextChange]_vars

\* ------------------------------------------------------------ issuance alone
\* Calls of login and refreshToken, for either owner, overlapping in any way.
NextIssue ==
    \E p \in Calls :
        \/ \E e \in Emails, pw \in TypedPasswords : LoginFind(p, e, pw)
        \/ LoginCreate(p)
        \/ LoginUpdate(p)
        \/ LoginTouch(p)
        \/ LoginAudit(p, TRUE)
        \/ \E t \in PresentableTokens : RefreshFind(p, t)
        \/ RefreshCreate(p)
        \/ RefreshUpdate(p)
        \/ RefreshDelete(p)

SpecIssue == Init /\ [][NextIssue]_vars

\* ------------------------------------------------------------ keyGenerator
\* What keyGenerator reads of a request: the X-Forwarded-For header, split at its commas
\* (empty when the header is absent), and the address of the connection's peer.
Senders == [forwarded : {<<>>, <<"ip1">>, <<"ip2", "ip1">>}, remoteAddress : Clients]

\* forwarded ? forwarded.split(',')[0] : req.connection.remoteAddress, or 'unknown'
KeyGenerator(sender) ==
    IF sender.forwarded # <<>> THEN Head(sender.forwarded)
    ELSE IF sender.remoteAddress # None THEN sender.remoteAddress
    ELSE "unknown"

\* A request of the sender reaches limiter l, which counts it under the sender's key.
\* A fresh counter is followed for its first request, a used up one beyond its max.
CountRequest(l, sender) ==
    /\ Cardinality(flight) < MaxInFlight
    /\ hits[l][KeyGenerator(sender)] >= Max(l) \/ hits[l][KeyGenerator(sender)] = 0
    /\ LimiterIncrement(l, KeyGenerator(sender))

InitKeys ==
    /\ config = LoadConfig(DeployedEnv)
    /\ \E l \in Limiters \cup {None} : FreshWith(WindowUsedUp(l))

NextKeys ==
    \/ \E l \in Limiters, sender \in Senders : CountRequest(l, sender)
    \/ \E f \in flight : LimiterDecide(f)

\* Requests of several senders at the four limiters within one window.
SpecKeys == InitKeys /\ [][NextKeys]_vars

\* ------------------------------------------------------------ disabled accounts
\* Logins and refreshes of one account while it is disabled and enabled in the database,
\* at any moment.
NextInactive ==
    \/ \E p \in Calls :
           \/ Quiet /\ LoginFind(p, EmailOf("a1"), PwOld)
           \/ LoginCreate(p)
           \/ LoginUpdate(p)
           \/ LoginTouch(p)
           \/ LoginAudit(p, TRUE)
           \/ \E t \in PresentableTokens : RefreshFind(p, t)
           \/ RefreshCreate(p)
           \/ RefreshUpdate(p)
           \/ RefreshDelete(p)
    \/ \E b \in BOOLEAN : SetActive("a1", b)

SpecInactive == Init /\ [][NextInactive]_vars

\* ============================================================ claims
IsRefresh(q) == req[q].op = "refresh" /\ pc[q] # "idle"
RefreshesOf(tok) == {q \in Calls : IsRefresh(q) /\ req[q].token = tok}
WonRefreshesOf(tok) == {q \in RefreshesOf(tok) : Succeeded(q)}

\* C1: among the refreshToken calls presenting one issued token value, whose store
\* operations interleave in any order, never more than one returns success, and once
\* they have all returned exactly one has returned success and every other failure.
C1_ExactlyOneRotation ==
    \A tok \in HandedTokens :
        /\ Cardinality(WonRefreshesOf(tok)) <= 1
        /\ (RefreshesOf(tok) # {} /\ \A q \in RefreshesOf(tok) : pc[q] = "done")
              => Cardinality(WonRefreshesOf(tok)) = 1

\* Two calls with one token that both found the record; one won, the other lost the race.
C1_Witness ==
    \E tok \in HandedTokens : \E p, q \in RefreshesOf(tok) :
        /\ p # q
        /\ Succeeded(p)
        /\ pc[q] = "done" /\ ~res[q].success
        /\ loc[q].rec.id = tok.tokenId
        /\ res[q].error = "Token refresh failed"

IsOp(q, op) == req[q].op = op /\ pc[q] # "idle"
Issuer(r) == Succeeded(r) /\ req[r].op \in {"login", "refresh"}
EventsBy(p, action) ==
    {i \in 1..Len(auditLogs) : auditLogs[i].by = p /\ auditLogs[i].action = action}

\* C2: once a refreshToken call has returned success, a later refreshToken call with the
\* same token value returns failure (record not found), creates no record and issues no
\* token.
C2_SingleUse ==
    \A p, q \in Calls :
        (IsRefresh(p) /\ Succeeded(p) /\ IsRefresh(q) /\ req[q].token = req[p].token
            /\ p \in prior[q])
        => /\ pc[q] = "done"
           /\ ~res[q].success
           /\ res[q].error = "Invalid refresh token"
           /\ loc[q].newId = 0
           /\ res[q].token = EmptyToken

C2_Witness ==
    \E p, q \in Calls :
        /\ IsRefresh(p) /\ Succeeded(p) /\ IsRefresh(q) /\ req[q].token = req[p].token
        /\ p \in prior[q]
        /\ pc[q] = "done"

\* C3: while a refreshToken call is in progress the ledger never holds both the record
\* being consumed and its replacement.
C3_AtomicRotation ==
    \A p \in Calls :
        (IsRefresh(p) /\ InFlight(p))
        => ~(Exists(refreshTokens, loc[p].rec.id) /\ loc[p].newId # 0
               /\ Exists(refreshTokens, loc[p].newId))

\* C4: when no call is in flight, every record of the ledger holds a non-empty token
\* value that a successful login or refresh response handed to a caller.
C4_NoHalfIssued ==
    Quiet => \A r \in refreshTokens : r.token # EmptyToken /\ r.token \in HandedTokens

\* The calls q that began after call p had returned and present a token that issuer r
\* handed to p's admin before p began.
RefreshAfterRevocation(p, r, q) ==
    /\ Succeeded(p)
    /\ Issuer(r) /\ r \in prior[p] /\ OwnerOf(r) = req[p].adminId
    /\ IsRefresh(q) /\ req[q].token = res[r].token /\ p \in prior[q]

C5_State ==
    \A p \in Calls : IsOp(p, "revokeAll") =>
        /\ Succeeded(p) => res[p].count = loc[p].count
        /\ \A r, q \in Calls : RefreshAfterRevocation(p, r, q)
              => pc[q] = "done" /\ ~res[q].success

C5_Step ==
    \A p \in Calls :
        (pc[p] = "idle" /\ pc'[p] = "revoke_audit")
        => /\ loc'[p].count = Cardinality(refreshTokens \ refreshTokens')
           /\ {r \in refreshTokens : r.adminId # req'[p].adminId}
                = {r \in refreshTokens' : r.adminId # req'[p].adminId}

\* C5: after revokeAllSessions(owner) has completed, a refreshToken call with a token
\* issued to the owner before the call fails; the count in the response is the number of
\* records the call deleted; the records of every other owner are untouched by it.
C5_Revocation == []C5_State /\ [][C5_Step]_vars

C5_Witness ==
    \E p, r, q \in Calls :
        /\ IsOp(p, "revokeAll") /\ RefreshAfterRevocation(p, r, q)
        /\ res[p].count > 0
        /\ pc[q] = "done"

\* C6: after a successful changePassword, a refreshToken call with a token issued to
\* the same owner before the change fails.
C6_PasswordChangeInvalidates ==
    \A p, r, q \in Calls :
        (IsOp(p, "changePassword") /\ RefreshAfterRevocation(p, r, q))
        => pc[q] = "done" /\ ~res[q].success

C6_Witness ==
    \E p, r, q \in Calls :
        /\ IsOp(p, "changePassword") /\ RefreshAfterRevocation(p, r, q)
        /\ req[r].op = "login"
        /\ pc[q] = "done"

\* C7: once changePassword(owner) has returned success, the ledger holds no record of
\* the owner that stems from a session begun before the change.
C7_NoResidualRecords ==
    \A p \in Calls :
        (IsOp(p, "changePassword") /\ Succeeded(p))
        => ~\E r \in refreshTokens : r.adminId = req[p].adminId /\ r.gen < loc[p].epoch

PasswordEventsBy(p) ==
    {i \in EventsBy(p, "UPDATE") :
        auditLogs[i].entityType = "admin" /\ auditLogs[i].adminId = req[p].adminId}

\* C8: a changePassword call that returns success has appended exactly one audit event
\* with action UPDATE, entityType admin and the owner as adminId; one that returns
\* failure has appended none.
C8_PasswordChangeAudited ==
    \A p \in Calls : (IsOp(p, "changePassword") /\ pc[p] = "done") =>
        IF res[p].success
        THEN Cardinality(PasswordEventsBy(p)) = 1 /\ Cardinality(EventsBy(p, "UPDATE")) = 1
        ELSE EventsBy(p, "UPDATE") = {}

LoginEventsBy(p) ==
    {i \in EventsBy(p, "LOGIN") : auditLogs[i].adminId = req[p].adminId}

\* C9 as stated: a login call that returns success has appended exactly one LOGIN event
\* whose adminId is the account's id; one that returns failure has appended none.
C9_LoginAuditedAlways ==
    \A p \in Calls : (IsOp(p, "login") /\ pc[p] = "done") =>
        IF res[p].success
        THEN Cardinality(LoginEventsBy(p)) = 1 /\ Cardinality(EventsBy(p, "LOGIN")) = 1
        ELSE EventsBy(p, "LOGIN") = {}

\* C9 as amended: a login call that returns success has appended exactly one LOGIN event
\* whose adminId is the account's id, unless the store refused the append, in which case
\* it has appended none; a login call that returns failure has appended none.
C9_LoginAudited ==
    \A p \in Calls : (IsOp(p, "login") /\ pc[p] = "done") =>
        IF res[p].success /\ ~loc[p].auditFailed
        THEN Cardinality(LoginEventsBy(p)) = 1 /\ Cardinality(EventsBy(p, "LOGIN")) = 1
        ELSE EventsBy(p, "LOGIN") = {}

C9_Witness ==
    \E p \in Calls :
        /\ IsOp(p, "login") /\ Succeeded(p) /\ ~loc[p].auditFailed
        /\ Cardinality(LoginEventsBy(p)) = 1

\* C10: a changePassword or revokeAllSessions call whose audit append failed reports
\* failure: no such call has answered success.
C10_CriticalAuditFailureReported ==
    \A p \in Calls :
        ((IsOp(p, "changePassword") \/ IsOp(p, "revokeAll")) /\ pc[p] = "done"
            /\ loc[p].auditFailed)
        => ~res[p].success

\* C11: a login call with valid credentials whose audit append the store refused has
\* returned success, and its response carries the access token and the refresh token
\* the call generated, both valid.
C11_LoginSurvivesAuditFailure ==
    \A p \in Calls :
        (IsOp(p, "login") /\ loc[p].auditFailed)
        => /\ Succeeded(p)
           /\ res[p].token = loc[p].newToken
           /\ VerifyRefreshToken(res[p].token, now)
           /\ res[p].accessToken = GenerateAccessToken(ClaimsOf(req[p].adminId), now)
           /\ VerifyAccessToken(res[p].accessToken, now)

C11_Witness ==
    \E p \in Calls :
        /\ IsOp(p, "login") /\ loc[p].auditFailed /\ Succeeded(p)
        /\ EventsBy(p, "LOGIN") = {}
        /\ \E r \in refreshTokens : r.token = res[p].token

RefusedLogin(p, cause) == IsOp(p, "login") /\ pc[p] = "done" /\ loc[p].cause = cause

\* C12: a login call with an email that has no account and a login call with the email
\* of an active account and a wrong password get the same status code and the same
\* message.
C12_UnknownEmailLikeWrongPassword ==
    \A p, q \in Calls :
        (RefusedLogin(p, "no_account") /\ req[p].adminId = None
            /\ RefusedLogin(q, "wrong_password"))
        => /\ LoginResponse(res[p]) = LoginResponse(res[q])
           /\ ~res[p].success /\ ~res[q].success

C12_Witness ==
    \E p, q \in Calls :
        /\ RefusedLogin(p, "no_account") /\ req[p].email = UnknownEmail
        /\ RefusedLogin(q, "wrong_password") /\ req[q].adminId \in AdminIds
        /\ ~ComparePassword(req[q].password, admins[req[q].adminId].password)
        /\ LoginResponse(res[q]).status = 401

\* C13: a login call against a disabled account gets, whatever password it supplies,
\* the same status code and the same message as a login call with a wrong password.
C13_DisabledLikeWrongPassword ==
    \A p, q \in Calls :
        (RefusedLogin(p, "inactive") /\ RefusedLogin(q, "wrong_password"))
        => LoginResponse(res[p]) = LoginResponse(res[q])

C14_State ==
    \A p \in Calls :
        (IsOp(p, "login") /\ pc[p] = "done" /\ loc[p].cause # None)
        => /\ ~res[p].success
           /\ loc[p].newId = 0
           /\ EventsBy(p, "LOGIN") = {}

C14_Step ==
    \A p \in Calls :
        (pc[p] = "idle" /\ pc'[p] = "done" /\ req'[p].op = "login")
        => /\ loc'[p].cause \in {"no_account", "inactive", "wrong_password"}
           /\ UNCHANGED <<admins, refreshTokens, auditLogs, nextId>>

\* C14: a login call refused for an unknown email, a disabled account or a wrong
\* password returns in the step that refuses it, and that step leaves the admins
\* (lastLoginAt included), the refresh-token records and the audit events as they were;
\* the call has created no record and appended no event.
C14_RefusedLoginChangesNothing == []C14_State /\ [][C14_Step]_vars

C14_Witness ==
    \E p, q, r \in Calls :
        /\ RefusedLogin(p, "no_account")
        /\ RefusedLogin(q, "inactive")
        /\ RefusedLogin(r, "wrong_password")
        /\ admins[req[r].adminId].lastLoginAt = NeverLoggedIn
        /\ refreshTokens = {} /\ auditLogs = <<>>

\* C15: a logout call that has returned, and whose token has no record left under the
\* owner, has returned success; this covers a record removed by an earlier logout and
\* two logout calls that both found the record before either deleted it.
C15_LogoutIdempotent ==
    \A p \in Calls :
        (IsOp(p, "logout") /\ pc[p] = "done"
            /\ FindFirst(refreshTokens, req[p].token, req[p].adminId) = {})
        => res[p].success

\* C16: of the login attempts with wrong credentials one client sends within one window,
\* the first 10 are answered 401 and every later one 429 with a positive retry-after.
C16_EleventhAttemptRefused ==
    \A k \in Clients : \A i \in 1..Len(served[k]) :
        IF i <= AuthMax
        THEN served[k][i].status = 401
        ELSE served[k][i].status = 429 /\ served[k][i].retryAfter > 0

\* C17: no limiter has let through more requests of one client key in one window than
\* its max, however the increments and decisions of concurrent requests interleave.
C17_AdmittedWithinMax ==
    \A l \in Limiters, k \in Clients : admitted[l][k] <= Max(l)

\* The admin limiter saturated: requests beyond max arrived, were all decided, and max
\* were let through.
C17_Witness ==
    \E k \in Clients :
        /\ hits["admin"][k] = AdminMax + Overshoot
        /\ admitted["admin"][k] = AdminMax
        /\ flight = {}

\* C18: under every configuration startup accepts, verifyAccessToken has accepted no
\* token made by generateRefreshToken and verifyRefreshToken none made by
\* generateAccessToken.
C18_KeySeparation ==
    (\/ verdict.by = "access" /\ verdict.of.class = "refresh"
     \/ verdict.by = "refresh" /\ verdict.of.class = "access")
    => ~verdict.ok

C20_AppendOnly ==
    [][\A i \in 1..Len(auditLogs) :
          i <= Len(auditLogs') /\ auditLogs'[i] = auditLogs[i]]_vars

\* C21: every response the application sends (success, validation failure, 401, 429,
\* 404, error handler) carries a defined requestId and a timestamp.
C21_ResponsesCarryRequestId ==
    http.reply # NoReply => http.reply.requestId # Undefined /\ http.reply.timestamp >= 0

\* C22: a request a rate limiter denied ran no validation, no authentication and no
\* controller, and while a request has not reached its controller no account, refresh
\* token record or audit event changes.
Denied == http.reply.status = 429
C22_State ==
    Denied =>
        /\ http.call = 0
        /\ http.ran \cap {"handleValidation", "authenticateToken", "controller",
                          "getAuditStats"} = {}
C22_Step == Pending /\ http.call = 0 => UNCHANGED <<admins, refreshTokens, auditLogs>>
C22_DeniedRunsNothing == []C22_State /\ [][C22_Step]_vars

\* C24: authenticateToken lets a request through exactly when its access token verifies
\* at the time of the request, whatever the ledger and the account look like: after
\* logout, after a password change, with the account disabled.
SeenAt == IF Pending THEN now ELSE http.reply.timestamp
C24_AccessTokenStateless ==
    "authenticateToken" \in http.ran =>
        (http.admin # None <=> VerifyAccessToken(http.token, SeenAt))

\* A disabled account's token, issued before a password change that left the account
\* without a refresh token record, is let through.
C24_Witness ==
    /\ http.admin # None
    /\ ~admins[http.admin].isActive
    /\ pwEpoch[http.admin] > 0
    /\ \A rec \in refreshTokens : rec.adminId # http.admin

\* C23: after any interleaving of createSubmission calls no two stored submissions share
\* an email; a call succeeds exactly when it stored its own submission, a call that began
\* after a submission with its email was stored fails, and a failed call leaves the stored
\* submission as its creator wrote it.
IsCreate(p) == IsOp(p, "createSubmission") /\ pc[p] = "done"
StoredBy(p) ==
    {s \in submissions : s.by = p /\ s.email = req[p].email /\ s.teamName = req[p].teamName}
C23_OneSubmissionPerEmail ==
    /\ \A s1, s2 \in submissions : s1.email = s2.email => s1 = s2
    /\ \A p \in Calls :
           IsCreate(p) =>
               /\ res[p].success <=> StoredBy(p) # {}
               /\ ~res[p].success => \A s \in submissions : s.by # p
               /\ \A q \in prior[p] :
                      Succeeded(q) /\ req[q].email = req[p].email => ~res[p].success

\* Two calls raced for one email with different team names: the store refused the
\* loser's create, and the winner's submission stands.
C23_Witness ==
    \E p, q \in Calls :
        /\ IsCreate(p) /\ IsCreate(q)
        /\ req[p].email = req[q].email /\ req[p].teamName # req[q].teamName
        /\ res[p].error = "Failed to create submission"
        /\ res[q].success /\ StoredBy(q) # {}

\* C25: the sweep removes exactly the records whose expiresAt is earlier than the current
\* time, and a refresh that found its record present and unexpired (and its owner
\* active) does not fail while the sweep runs beside it.
PassedChecks(p) == IsOp(p, "refresh") /\ loc[p].accessToken # NoAccessToken
C25_State == \A p \in Calls : PassedChecks(p) /\ pc[p] = "done" => res[p].success
C25_Step ==
    UNCHANGED <<pc, now>> =>
        refreshTokens' \in {refreshTokens, {r \in refreshTokens : r.expiresAt >= now}}
C25_SweepSparesRefresh == []C25_State /\ [][C25_Step]_vars

\* C26: when every changePassword call made for an account has returned failure, the
\* account's stored hash is the one it had before and the refresh token records its
\* logins created are all still there.
ChangesOf(a) == {p \in Calls : IsOp(p, "changePassword") /\ req[p].adminId = a}
C26_NoPartialCommit ==
    \A a \in AdminIds :
        (ChangesOf(a) # {} /\ \A p \in ChangesOf(a) : pc[p] = "done" /\ ~res[p].success) =>
            /\ admins[a].password = HashPassword(PwOld)
            /\ \A q \in Calls :
                   Succeeded(q) /\ IsOp(q, "login") /\ req[q].adminId = a =>
                       \E r \in refreshTokens : r.token = res[q].token

\* C27: changePassword replaces the stored secret only when confirm equals the new
\* secret, the current secret matches the stored hash and the new secret passes the
\* strength check; the checks are made in that order and the first failing one
\* determines the error.
ConfirmMatches(form) == form.confirmPassword = form.newPassword
ClaimedOutcome(form, stored) ==
    IF ~ConfirmMatches(form) THEN {"ConfirmMismatch"}
    ELSE IF ~ComparePassword(form.currentPassword, stored) THEN {"InvalidCurrentSecret"}
    ELSE IF ~ValidatePasswordStrength(form.newPassword) THEN {"WeakSecret"}
    ELSE {}
\* What a rejection by the validator reports, by the field each error names.
ReportedOutcome(form) ==
    {k \in {"ConfirmMismatch", "InvalidCurrentSecret", "WeakSecret"} :
        \/ k = "ConfirmMismatch" /\ "confirmPassword" \in AdminChangePasswordValidation(form)
        \/ k = "InvalidCurrentSecret"
               /\ "currentPassword" \in AdminChangePasswordValidation(form)
        \/ k = "WeakSecret" /\ "newPassword" \in AdminChangePasswordValidation(form)}
\* What the service made of the call it has just decided.
ServiceOutcome(p) ==
    IF pc'[p] # "done" THEN {}
    ELSE IF res'[p].error = "Current password is incorrect" THEN {"InvalidCurrentSecret"}
    ELSE IF res'[p].error = "Password does not meet security requirements"
    THEN {"WeakSecret"}
    ELSE {"other"}
ChangeRequest == http.route = "change-password" /\ http.admin # None
ValidatorRejects ==
    ChangeRequest /\ http.call = 0 /\ http.reply = NoReply /\ http'.reply.status = 400
ServiceDecides(p) == Serving(p, "change-password") /\ pc'[p] # "idle"
Replaces(a) == admins'[a].password # admins[a].password
ReplacedWhenAllHold ==
    \A a \in AdminIds :
        Replaces(a) =>
            /\ ChangeRequest /\ http.admin = a
            /\ ConfirmMatches(http.form)
            /\ ComparePassword(http.form.currentPassword, admins[a].password)
            /\ ValidatePasswordStrength(http.form.newPassword)
            /\ admins'[a].password = HashPassword(http.form.newPassword)
C27_Step ==
    /\ ReplacedWhenAllHold
    /\ ValidatorRejects =>
           ReportedOutcome(http.form)
               = ClaimedOutcome(http.form, admins[http.admin].password)
    /\ \A p \in Calls :
           ServiceDecides(p) =>
               ServiceOutcome(p) = ClaimedOutcome(http.form, admins[http.admin].password)
WellFormedSecret(pw) ==
    /\ Len(pw) >= 8
    /\ HasChar(pw, Lower) /\ HasChar(pw, Upper) /\ HasChar(pw, Digit) /\ HasChar(pw, Special)
ValidatorOutcome(form) ==
    {k \in {"ConfirmMismatch", "InvalidCurrentSecret", "WeakSecret"} :
        \/ k = "ConfirmMismatch" /\ ~ConfirmMatches(form)
        \/ k = "InvalidCurrentSecret" /\ form.currentPassword = <<>>
        \/ k = "WeakSecret" /\ ~WellFormedSecret(form.newPassword)}
ActualOutcome(form, stored) ==
    IF ~ComparePassword(form.currentPassword, stored) THEN {"InvalidCurrentSecret"}
    ELSE IF ~ValidatePasswordStrength(form.newPassword) THEN {"WeakSecret"}
    ELSE {}
C27_State ==
    ChangeRequest /\ "handleValidation" \in http.ran =>
        (http.call = 0 /\ http.reply # NoReply <=> ValidatorOutcome(http.form) # {})
C27_StepAmended ==
    /\ ReplacedWhenAllHold
    /\ ValidatorRejects =>
           /\ ReportedOutcome(http.form) = ValidatorOutcome(http.form)
           /\ ValidatorOutcome(http.form) # {}
    /\ \A p \in Calls :
           ServiceDecides(p) =>
               /\ ValidatorOutcome(http.form) = {}
               /\ ServiceOutcome(p) = ActualOutcome(http.form, admins[http.admin].password)
LogoutSteps(p) == pc'[p] # pc[p] /\ req'[p].op = "logout"
Matches(r, p) == r.token = req'[p].token /\ r.adminId = req'[p].adminId
C28_Step ==
    \A p \in Calls :
        LogoutSteps(p) =>
            /\ refreshTokens' \subseteq refreshTokens
            /\ \A r \in refreshTokens \ refreshTokens' : Matches(r, p)
            /\ (\A r \in refreshTokens : r.token = req'[p].token => r.adminId # req'[p].adminId)
                   => UNCHANGED refreshTokens
C28_LogoutDeletesOwnRecord == [][C28_Step]_vars

\* A logout presenting a live token of another owner has returned success and the
\* record is still there, beside a second record of that owner.
C28_Witness ==
    \E p \in Calls :
        /\ IsOp(p, "logout") /\ Succeeded(p)
        /\ \E r \in refreshTokens : r.token = req[p].token /\ r.adminId # req[p].adminId
        /\ Cardinality(refreshTokens) > 1

\* C29: every logout call that has returned success has appended exactly one audit event
\* with action LOGOUT for its owner, whether or not a record matched its token.
LogoutEventsOf(p) ==
    {i \in DOMAIN auditLogs :
        /\ auditLogs[i].by = p
        /\ auditLogs[i].action = "LOGOUT"
        /\ auditLogs[i].adminId = req[p].adminId}
C29_LogoutAudited ==
    \A p \in Calls :
        IsOp(p, "logout") /\ Succeeded(p) => Cardinality(LogoutEventsOf(p)) = 1

\* C30: a refreshToken call that fails because its token has no record deletes nothing:
\* the step that fails it leaves every refresh token record and every account as it was,
\* so each record of the owner that could be rotated before can be rotated after.
Reused(p) ==
    /\ pc[p] = "idle" /\ pc'[p] = "done"
    /\ req'[p].op = "refresh"
    /\ res'[p].error = "Invalid refresh token"
\* refreshToken would take the record's token past its checks at time t.
Rotatable(r, accounts, t) ==
    /\ VerifyRefreshToken(r.token, t)
    /\ ~(r.expiresAt < t)
    /\ accounts[r.adminId].isActive
C30_Step ==
    \A p \in Calls :
        Reused(p) =>
            /\ UNCHANGED <<refreshTokens, admins>>
            /\ \A r \in refreshTokens :
                   Rotatable(r, admins, now) => r \in refreshTokens' /\ Rotatable(r, admins', now')
C30_ReuseRevokesNothing == [][C30_Step]_vars

\* A token was rotated, then presented again and refused, and the record the rotation
\* created for the same owner can be rotated.
C30_Witness ==
    \E p, q \in Calls :
        /\ IsRefresh(q) /\ Succeeded(q) /\ q \in prior[p]
        /\ IsRefresh(p) /\ pc[p] = "done" /\ req[p].token = req[q].token
        /\ res[p].error = "Invalid refresh token"
        /\ \E r \in refreshTokens :
               /\ r.token = res[q].token
               /\ r.adminId = req[p].token.adminId
               /\ Rotatable(r, admins, now)

\* C31: along a session chain the token returned most recently is accepted by the next
\* refreshToken, and by no second one; the record that replaces the consumed one has the
\* consumed record's owner; a token returned earlier in the chain is rejected; and while
\* no two calls overlapped, an owner has as many records as logins that succeeded.
Sequential == \A q \in Calls : pc[q] # "idle" => prior[q] = 1..(q - 1)
RecordsOf(a) == {r \in refreshTokens : r.adminId = a}
LoginsOf(a) == {q \in Calls : Succeeded(q) /\ req[q].op = "login" /\ req[q].adminId = a}
Consumed(tok) == \E q \in WonRefreshesOf(tok) : TRUE
C31_SessionChain ==
    /\ \A tok \in HandedTokens :
           /\ Cardinality(WonRefreshesOf(tok)) <= 1
           /\ \A q \in RefreshesOf(tok) :
                  pc[q] = "done" =>
                      /\ (\E w \in WonRefreshesOf(tok) : w \in prior[q]) => ~res[q].success
                      /\ RefreshesOf(tok) = {q} => res[q].success
                      /\ res[q].success =>
                             /\ res[q].token.adminId = loc[q].rec.adminId
                             /\ tok.adminId = loc[q].rec.adminId
                             /\ \A r \in refreshTokens :
                                    r.token = res[q].token => r.adminId = loc[q].rec.adminId
           /\ Quiet /\ ~Consumed(tok) => \E r \in refreshTokens : r.token = tok
           /\ Consumed(tok) => \A r \in refreshTokens : r.token # tok
    /\ Sequential /\ Quiet =>
           \A a \in AdminIds : Cardinality(RecordsOf(a)) = Cardinality(LoginsOf(a))

\* C32: a request counted by a limiter adds one to that limiter's count of the request's
\* key and changes no other limiter's count and no other key's; its admission is decided
\* by that count alone, so what a limiter has let through of a key is a function of the
\* limiter's count of the key.
OtherCounters(l, k) == {c \in Limiters \X Clients : c # <<l, k>>}
SameElsewhere(l, k) ==
    \A c \in OtherCounters(l, k) :
        hits'[c[1]][c[2]] = hits[c[1]][c[2]] /\ admitted'[c[1]][c[2]] = admitted[c[1]][c[2]]
C32_State ==
    /\ \A f \in flight : f.totalHits <= hits[f.limiter][f.key]
    /\ flight = {} =>
           \A l \in Limiters, k \in Clients :
               admitted[l][k] = IF hits[l][k] > Max(l) THEN Max(l) ELSE hits[l][k]
C32_Step ==
    /\ \A f \in flight' \ flight :
           /\ SameElsewhere(f.limiter, f.key)
           /\ hits'[f.limiter][f.key] = hits[f.limiter][f.key] + 1
           /\ f.totalHits = hits'[f.limiter][f.key]
    /\ \A f \in flight \ flight' :
           /\ SameElsewhere(f.limiter, f.key)
           /\ hits' = hits
           /\ admitted'[f.limiter][f.key] =
                  admitted[f.limiter][f.key] + (IF f.totalHits > Max(f.limiter) THEN 0 ELSE 1)
C32_CountersApart == []C32_State /\ [][C32_Step]_vars

\* One key was refused by the general limiter, whose budget it had used up, while the
\* other key was let through by it, and the refused key was let through by another
\* limiter.
C32_Witness ==
    /\ flight = {}
    /\ hits["general"]["ip1"] > GeneralMax
    /\ admitted["general"]["ip2"] = 1
    /\ admitted["submission"]["ip1"] = 1
    /\ hits["admin"]["ip1"] = 0

\* C33: on a route that authenticates, every rate limiter of the route has run, and has
\* counted the request, by the time authenticateToken runs: a request refused for its
\* access token has consumed the budget of each of the route's limiters.
LimitersOf(route) == {m \in Handlers(route) : IsLimiter(m)}
C33_AdmissionBeforeAuthentication ==
    "authenticateToken" \in http.ran => LimitersOf(http.route) \subseteq http.ran

\* C34: a request to /ping passes no rate limiter: it is counted by none and is never
\* answered 429.
C34_State ==
    http.route = "ping" =>
        /\ http.reply.status # 429
        /\ \A m \in http.ran : ~IsLimiter(m)
C34_Step == Pending /\ http.route = "ping" => UNCHANGED <<hits, admitted>>
C34_PingOutsideRateLimiting == []C34_State /\ [][C34_Step]_vars

\* C35: a login whose credentials were accepted returns success whatever logins and
\* refreshes are in flight beside it, a refresh never fails at the insert of its
\* placeholder record, and no two refresh token records hold the same token value.
AcceptedLogin(p) == IsOp(p, "login") /\ pc[p] = "done" /\ loc[p].cause = None
FailedAtCreate(p) ==
    /\ IsRefresh(p) /\ pc[p] = "done" /\ ~res[p].success
    /\ loc[p].rec # NoRec /\ loc[p].accessToken # NoAccessToken /\ loc[p].newId = 0
C35_ConcurrentIssuance ==
    /\ \A p \in Calls : AcceptedLogin(p) => res[p].success
    /\ \A p \in Calls : ~FailedAtCreate(p)
    /\ \A r1, r2 \in refreshTokens : r1.token = r2.token => r1 = r2

\* C36: a refreshToken call that finds its record unexpired refuses exactly when the
\* owner's account is inactive at that moment; refusing, it returns no token, creates
\* nothing and leaves every record, the presented one included, in place, so the same
\* token passes once the account is active again.
BeginsRefresh(p) == pc[p] = "idle" /\ pc'[p] # "idle" /\ req'[p].op = "refresh"
Presented(p) ==
    {r \in refreshTokens :
        /\ r.id = req'[p].token.tokenId /\ r.token = req'[p].token
        /\ VerifyRefreshToken(r.token, now) /\ ~(r.expiresAt < now)}
Disabled(p) == IsRefresh(p) /\ pc[p] = "done" /\ res[p].error = "Account is disabled"
C36_State ==
    \A p \in Calls :
        Disabled(p) =>
            /\ ~res[p].success
            /\ res[p].token = EmptyToken /\ res[p].accessToken = NoAccessToken
            /\ loc[p].newId = 0
C36_Step ==
    \A p \in Calls :
        BeginsRefresh(p) =>
            \A r \in Presented(p) :
                IF admins[r.adminId].isActive
                THEN pc'[p] = "refresh_create"
                ELSE /\ pc'[p] = "done" /\ res'[p].error = "Account is disabled"
                     /\ UNCHANGED <<refreshTokens, nextId, admins>>
FoundExpired(p) ==
    /\ IsRefresh(p)
    /\ pc[p] = "refresh_expired"
          \/ (pc[p] = "done" /\ loc[p].rec # NoRec /\ loc[p].accessToken = NoAccessToken
                /\ res[p].error # "Account is disabled")
C37_State ==
    \A p \in Calls :
        FoundExpired(p) /\ pc[p] = "done" =>
            /\ ~res[p].success /\ res[p].error = "Refresh token expired"
            /\ loc[p].newId = 0
            /\ \A q \in Calls :
                   (IsRefresh(q) /\ pc[q] = "done" /\ req[q].token = req[p].token
                       /\ p \in prior[q]) => res[q].error = "Invalid refresh token"
C37_Step ==
    \A p \in Calls :
        pc[p] = "refresh_expired" /\ pc'[p] = "done" =>
            /\ refreshTokens' = refreshTokens \ {loc[p].rec}
            /\ loc[p].rec \in refreshTokens
C37_ExpiredRecordRemoved == []C37_State /\ [][C37_Step]_vars
====
